---- MODULE Spec2Model ----
(***************************************************************************)
(* The uStepperS stage driver (class us of central_control_dev/us.py) as a *)
(* state machine.  The driver object is the record self; a call stack of   *)
(* frames holds the position and the locals of every method that is being  *)
(* executed.  One step of the machine is one round trip on the link        *)
(* (self.pcb.get) together with all the local computation up to the next   *)
(* link call, method call or return.  The link is the environment: each    *)
(* response is drawn from a small set of values of the kind the command    *)
(* answers with.  The clock (time.time) is the variable now: it starts at  *)
(* 0 with every call of the orchestrator and advances by one with every    *)
(* unsuccessful round of a polling loop (the sleep of goto's loop, line     *)
(* 477; the failed length poll of wait_for_home_or_jog, lines 267-277);    *)
(* timeouts are counted in the same unit.                                  *)
(***************************************************************************)
EXTENDS Integers, Sequences, FiniteSets, TLC

VARIABLES self, stack, retval, now, hist, call, result, sess

vars == <<self, stack, retval, now, hist, call, result, sess>>

---------------------------------------------------------------------------
(* Python values: None, numbers, strings (by length: Str(0) is ""), lists  *)
(* and, as the outcome of a call, an uncaught exception.                   *)

None == [k |-> "none", v |-> 0, l |-> <<>>]
Num(n) == [k |-> "num", v |-> n, l |-> <<>>]
Str(n) == [k |-> "str", v |-> n, l |-> <<>>]
List(s) == [k |-> "list", v |-> 0, l |-> s]
Exc == [k |-> "exc", v |-> 0, l |-> <<>>]

IsNum(x) == x.k = "num"
IsList(x) == x.k = "list"

---------------------------------------------------------------------------
(* Class attributes and the constructor's configuration.                   *)

motor_steps_per_rev == 200
micro_stepping == 256
screw_pitch == 8
allowed_length_deviation == 5
end_buffers == 5
otter_safe_x == 550
max_axes == 3

\* The millimetre values of callers and of reports are held in units of
\* 1/(MmDen*steps_per_mm) mm: a caller's number is the rational q/MmDen
\* steps, and steps/steps_per_mm stands for the float nearest to it.
MmDen == 2

\* Bounds of the model.
MaxTimeout == 3
MaxConnects == 2
MaxMoves == 2

Mm(x, spm) == x * spm * MmDen

\* steps / self.steps_per_mm, as the rational it stands for
to_mm(steps) == steps * MmDen

---------------------------------------------------------------------------
(* Python's floats.  The driver computes its targets in floats (lines 347  *)
(* and 420): IEEE 754 doubles, every operation rounded to 53 significant   *)
(* bits, ties to even.  A float is the record [s, m, e] of value           *)
(* s * m * 2^e with s the sign (1 or -1) and m the significand, a natural  *)
(* number of exactly 53 bits, or 0 with e = 0 for zero.  Naturals of that  *)
(* size are sequences of digits in base Limb, least significant first,     *)
(* without leading zeros.  The values of the driver are far from the       *)
(* smallest and the largest double, so exponents have no bounds here.      *)

\* the bits of a digit, and the base of the digits
LimbBits == 15
Limb == 2 ^ LimbBits
\* sys.float_info.mant_dig
Precision == 53

\* F of the value of v, with v evaluated once; every operator below takes
\* its arguments through it
With(v, F(_)) == CHOOSE r \in {F(x) : x \in {v}} : TRUE

RECURSIVE BigOfNat(_)
BigOfNat(n) ==
    With(n, LAMBDA v :
        IF v = 0 THEN <<>> ELSE <<v % Limb>> \o BigOfNat(v \div Limb))

RECURSIVE NatOfBig(_)
NatOfBig(a) ==
    With(a, LAMBDA v :
        IF v = <<>> THEN 0 ELSE v[1] + Limb * NatOfBig(Tail(v)))

RECURSIVE BigTrim(_)
BigTrim(a) ==
    With(a, LAMBDA v :
        IF v # <<>> /\ v[Len(v)] = 0 THEN BigTrim(SubSeq(v, 1, Len(v) - 1))
        ELSE v)

\* a + b + c, c a carry
RECURSIVE BigAddC(_, _, _)
BigAddC(a, b, c) ==
    With(<<a, b, c>>, LAMBDA p :
        IF p[1] = <<>> /\ p[2] = <<>> THEN BigOfNat(p[3])
        ELSE With((IF p[1] = <<>> THEN 0 ELSE p[1][1])
                  + (IF p[2] = <<>> THEN 0 ELSE p[2][1]) + p[3],
                  LAMBDA x :
                    <<x % Limb>> \o BigAddC(IF p[1] = <<>> THEN <<>> ELSE Tail(p[1]),
                                            IF p[2] = <<>> THEN <<>> ELSE Tail(p[2]),
                                            x \div Limb)))

\* a - b - w for a >= b + w, w a borrow; leading zeros are left in place
RECURSIVE BigSubB(_, _, _)
BigSubB(a, b, w) ==
    With(<<a, b, w>>, LAMBDA p :
        IF p[1] = <<>> THEN <<>>
        ELSE With(p[1][1] - (IF p[2] = <<>> THEN 0 ELSE p[2][1]) - p[3],
                  LAMBDA x :
                    <<IF x < 0 THEN x + Limb ELSE x>>
                    \o BigSubB(Tail(p[1]), IF p[2] = <<>> THEN <<>> ELSE Tail(p[2]),
                               IF x < 0 THEN 1 ELSE 0)))

\* -1, 0 or 1 as a is less than, equal to or greater than b
RECURSIVE BigCmp(_, _)
BigCmp(a, b) ==
    With(<<a, b>>, LAMBDA p :
        LET m == Len(p[1])
            n == Len(p[2])
        IN  IF m # n THEN (IF m < n THEN -1 ELSE 1)
            ELSE IF m = 0 THEN 0
            ELSE IF p[1][m] # p[2][n] THEN (IF p[1][m] < p[2][n] THEN -1 ELSE 1)
            ELSE BigCmp(SubSeq(p[1], 1, m - 1), SubSeq(p[2], 1, n - 1)))

\* a * k + c for 0 < k <= Limb
RECURSIVE BigMulC(_, _, _)
BigMulC(a, k, c) ==
    With(<<a, k, c>>, LAMBDA p :
        IF p[1] = <<>> THEN BigOfNat(p[3])
        ELSE With(p[1][1] * p[2] + p[3],
                  LAMBDA x : <<x % Limb>> \o BigMulC(Tail(p[1]), p[2], x \div Limb)))

\* quotient (leading zeros left in place) and remainder of a by k,
\* 0 < k <= Limb
RECURSIVE BigDivR(_, _)
BigDivR(a, k) ==
    With(<<a, k>>, LAMBDA p :
        IF p[1] = <<>> THEN [q |-> <<>>, r |-> 0]
        ELSE With(BigDivR(Tail(p[1]), p[2]),
                  LAMBDA hi : [q |-> <<(hi.r * Limb + p[1][1]) \div p[2]>> \o hi.q,
                               r |-> (hi.r * Limb + p[1][1]) % p[2]]))

\* a * 2^n
BigShl(a, n) ==
    With(<<a, n>>, LAMBDA p :
        IF p[1] = <<>> THEN <<>>
        ELSE BigMulC([i \in 1..(p[2] \div LimbBits) |-> 0] \o p[1],
                     2 ^ (p[2] % LimbBits), 0))

\* the number of bits of a
BitLen(a) ==
    With(a, LAMBDA v :
        IF v = <<>> THEN 0
        ELSE LimbBits * (Len(v) - 1)
             + CHOOSE n \in 1..LimbBits :
                 2 ^ (n - 1) <= v[Len(v)] /\ v[Len(v)] < 2 ^ n)

\* a \div 2^n rounded to the nearest, ties to even; inexact says that the
\* number a stands for is a little more than a
BigRound(a, n, inexact) ==
    With(<<a, n, inexact>>, LAMBDA p :
        LET Quotient ==
                IF p[2] \div LimbBits >= Len(p[1]) THEN <<>>
                ELSE BigTrim(BigDivR(SubSeq(p[1], p[2] \div LimbBits + 1, Len(p[1])),
                                     2 ^ (p[2] % LimbBits)).q)
            Rest(q) == BigTrim(BigSubB(p[1], BigShl(q, p[2]), 0))
            Half(rest) == BigCmp(BigShl(rest, 1), BigShl(<<1>>, p[2]))
            Nearest(q, c) ==
                IF c > 0 \/ (c = 0 /\ (p[3] \/ (q # <<>> /\ q[1] % 2 = 1)))
                THEN BigAddC(q, <<1>>, 0) ELSE q
        IN  With(Quotient,
                 LAMBDA q : With(Half(Rest(q)), LAMBDA c : Nearest(q, c))))

\* the float nearest to s * a * 2^e (a little more in magnitude if inexact)
RECURSIVE FloatOf(_, _, _, _)
FloatOf(s, a, e, inexact) ==
    With(a, LAMBDA v : With(BitLen(v), LAMBDA n :
        IF v = <<>> THEN [s |-> 1, m |-> <<>>, e |-> 0]
        ELSE IF n > Precision
        THEN FloatOf(s, BigRound(v, n - Precision, inexact), e + n - Precision,
                     FALSE)
        ELSE [s |-> s, m |-> BigShl(v, Precision - n),
              e |-> e - (Precision - n)]))

\* n / d of two integers, 0 < d <= Limb: the float nearest to the quotient.
\* The quotient is developed to Precision + LimbBits + 2 bits after the
\* point, so that it has bits to round away
Float(n, d) ==
    LET bits == Precision + LimbBits + 2
    IN  With(BigShl(BigOfNat(IF n < 0 THEN -n ELSE n), bits), LAMBDA num :
        With(BigDivR(num, d), LAMBDA qr :
            FloatOf(IF n < 0 THEN -1 ELSE 1, BigTrim(qr.q), -bits, qr.r # 0)))

\* x + y
FloatAdd(x, y) ==
    With(x, LAMBDA u : With(y, LAMBDA v :
        LET e == IF u.e < v.e THEN u.e ELSE v.e
        IN  IF u.m = <<>> THEN v
            ELSE IF v.m = <<>> THEN u
            ELSE With(BigShl(u.m, u.e - e), LAMBDA a :
                 With(BigShl(v.m, v.e - e), LAMBDA b :
                    IF u.s = v.s THEN FloatOf(u.s, BigAddC(a, b, 0), e, FALSE)
                    ELSE IF BigCmp(a, b) >= 0
                    THEN FloatOf(u.s, BigTrim(BigSubB(a, b, 0)), e, FALSE)
                    ELSE FloatOf(v.s, BigTrim(BigSubB(b, a, 0)), e, FALSE)))))

\* round(x): the nearest integer, ties to the even one
FloatRound(x) ==
    With(x, LAMBDA u :
        With(IF u.e >= 0 THEN BigShl(u.m, u.e) ELSE BigRound(u.m, -u.e, FALSE),
             LAMBDA n : u.s * NatOfBig(n)))

\* self.axes.index(ax); 0 stands for the ValueError of a missing element
IndexOf(s, x) ==
    IF \E i \in 1..Len(s) : s[i] = x
    THEN CHOOSE i \in 1..Len(s) : s[i] = x /\ \A j \in 1..(i - 1) : s[j] # x
    ELSE 0

\* the axes whose bit is set in the bitmask, in bit order
RECURSIVE AxesOf(_, _)
AxesOf(stage_controllers, i) ==
    IF i >= max_axes THEN <<>>
    ELSE (IF (stage_controllers \div (2 ^ i)) % 2 = 1 THEN <<i + 1>> ELSE <<>>)
         \o AxesOf(stage_controllers, i + 1)

---------------------------------------------------------------------------
(* The stage the model runs on, and what the link may answer.              *)

StepsPerMm == 10
UserLengths == <<Num(750), Num(600)>>
UserKeepout == <<<<20, 30>>, <<>> >>

\* the configured lengths of the stage of a session; a third axis in the
\* sessions that stop single axes
LengthsOf(mode) ==
    IF mode = "estop" THEN Append(UserLengths, Num(100)) ELSE UserLengths

\* The answers to the axis discovery `e`: the bitmask of a stage with as many
\* axes as lengths were configured.
BitmaskReads ==
    IF sess.mode = "estop" THEN {Num(7)}
    ELSE IF sess.mode = "connect" THEN {Num(3), Num(1), None, Exc}
    ELSE {Num(3)}
AckReads == {Str(0), Str(1)}

\* the sessions that run on a plain stage and on the otter stage call, on
\* the otter stage, the home of the whole stage and nothing else
OtterSession == sess.mode \in {"stage", "deadline"} /\ self.extra = "otter"

\* The answers to a length read of axis ax: absent, unhomed (0), the
\* expected length, and a length out of tolerance.  While connect runs the
\* link answers with a length: the expected one, or for the last axis also
\* one out of tolerance.  In a session of tolerance checks the link answers
\* with the expected length, the ends of the tolerance interval, the lengths
\* one step inside them, and the lengths 1 mm inside and 1 mm outside the
\* upper end.  On the otter stage the length out of tolerance is one of
\* axis 1, the axis whose length the composite homing checks.
LenReads(ax) ==
    LET el == IF ax \in 1..Len(UserLengths) THEN UserLengths[ax].v ELSE 100
        spm == self.steps_per_mm
        ald == allowed_length_deviation
        good == Num(el * spm)
        bad == Num((el + 20) * spm)
    IN  IF call.op = "connect" /\ sess.mode = "connect"
        THEN {None, good, bad, Exc}
        ELSE IF call.op = "connect" /\ sess.mode = "tolerance"
        THEN {good}
        ELSE IF sess.mode = "tolerance"
        THEN {None, good,
              Num((el - ald) * spm), Num((el - ald) * spm + 1),
              Num((el + ald) * spm - 1), Num((el + ald) * spm),
              Num((el + ald - 1) * spm), Num((el + ald + 1) * spm)}
        ELSE IF call.op = "connect"
        THEN (IF ax = Len(UserLengths) THEN {good, bad} ELSE {good})
        ELSE IF (sess.mode = "otter" \/ OtterSession) /\ ax # 1
        THEN {None, Num(0), good}
        ELSE IF sess.mode \in {"move", "deadline"} THEN {None, good}
        ELSE {None, Num(0), good, bad}

\* the answers to a position read ('r') in a session of moves: no answer, 0,
\* a position the axis stands at (axis 1 at 100 mm, one step further, or
\* half a millimetre further, an odd number of steps; any other at 50 mm)
\* or a target of the move before; while goto waits for the move to end, no
\* answer or the target.  One step past 100 mm the float sum with an offset
\* of a step and a half falls beside the half step the exact sum is.
MoveStarts(ax) ==
    IF ax = 1 THEN {100 * StepsPerMm, 100 * StepsPerMm + 1,
                    100 * StepsPerMm + StepsPerMm \div 2}
    ELSE {50 * StepsPerMm}

\* The answers to a position read: absent, or 550 mm; in a session of
\* position queries also 0, the position of an axis that is not homed, and
\* the empty string, the answer of a controller that only acknowledges.
PosReads ==
    IF call.op = "connect" /\ sess.mode = "connect"
    THEN {None, Num(550 * StepsPerMm), Exc}
    ELSE IF call.op = "connect" THEN {None}
    ELSE IF sess.mode = "position"
    THEN {None, Num(0), Num(550 * StepsPerMm), Str(0)}
    ELSE IF sess.mode # "move" THEN {None, Num(550 * StepsPerMm)}
    ELSE IF stack[Len(stack)].fn = "goto"
    THEN {None, Num(stack[Len(stack)].new_pos[stack[Len(stack)].i])}
    ELSE {None, Num(0)}
         \cup {Num(p) : p \in MoveStarts(stack[Len(stack)].axes[stack[Len(stack)].i])}
         \cup {Num(sess.prev.to[i]) : i \in 1..Len(sess.prev.to)}

\* the offsets of a move, in mm units: 20 mm, and one and a half steps when
\* MmDen is even
Offset20 == Mm(20, StepsPerMm)
OffsetSmall == MmDen + MmDen \div 2

\* Targets in mm: below the end buffer, in axis 1's keepout zone, valid on
\* both axes, beyond the far end buffer, and half a step below the end buffer.
Below == Mm(4, StepsPerMm)
InZone == Mm(25, StepsPerMm)
Valid == Mm(550, StepsPerMm)
Beyond == Mm(746, StepsPerMm)
HalfStep == Mm(end_buffers, StepsPerMm) - 1

\* the floats of the numbers the callers of these sessions pass on a stage
\* of StepsPerMm steps per mm, computed once
CallerFloats ==
    [mm \in {Below, InZone, Valid, Beyond, HalfStep, Offset20, -Offset20,
             OffsetSmall, -OffsetSmall, Mm(otter_safe_x, StepsPerMm)} |->
        Float(mm, MmDen * StepsPerMm)]

\* a number of millimetres as the caller writes it (a multiple of
\* 1/(MmDen*steps_per_mm) mm, in those units): the float nearest to it
PyFloat(mm) ==
    IF self.steps_per_mm = StepsPerMm /\ mm \in DOMAIN CallerFloats
    THEN CallerFloats[mm]
    ELSE Float(mm, MmDen * self.steps_per_mm)

\* line 420: round(new_pos[i] * self.steps_per_mm), new_pos[i] a float
to_steps(x) ==
    With(x, LAMBDA u :
        FloatRound(FloatOf(u.s, BigMulC(u.m, self.steps_per_mm, 0), u.e, FALSE)))

\* timeout budgets, in sleeps of a polling loop
Timeouts == {0, MaxTimeout}
\* block and timeout of a call: the budget matters to a blocking call only;
\* in a session about deadlines every call blocks
Blocking ==
    IF sess.mode = "deadline" THEN {<<TRUE, t>> : t \in Timeouts}
    ELSE {<<FALSE, MaxTimeout>>} \cup {<<TRUE, t>> : t \in Timeouts}

---------------------------------------------------------------------------
(* The machine: frames, events of the running call, call and return.       *)

Top == stack[Len(stack)]
Pop == SubSeq(stack, 1, Len(stack) - 1)
SetTop(f) == [stack EXCEPT ![Len(stack)] = f]
At(fn, pc) == stack # <<>> /\ Top.fn = fn /\ Top.pc = pc
Idle == stack = <<>>

\* the command name(ax, arg, s) was sent on the link, which answered val
CmdEv(name, ax, arg, s, val) ==
    [e |-> "cmd", name |-> name, ax |-> ax, arg |-> arg, s |-> s, val |-> val]
\* the method of frame f, at depth arg of the call stack, returned val
RetEv(f, val) ==
    [e |-> "ret", name |-> f.fn, ax |-> f.axis, arg |-> Len(stack), s |-> "", val |-> val]
\* method fn assigned b to self.homed
HomedEv(fn, b) ==
    [e |-> "homed", name |-> fn, ax |-> 0, arg |-> 0, s |-> b, val |-> None]

\* the running method returns val to its caller
DoReturn(val, h) ==
    /\ stack' = Pop
    /\ retval' = val
    /\ result' = IF Len(stack) = 1 THEN val ELSE result
    /\ hist' = Append(h, RetEv(Top, val))

\* the running method goes on as frame f
DoStep(f, h) ==
    /\ stack' = SetTop(f)
    /\ hist' = h
    /\ UNCHANGED <<retval, result>>

\* the running method, left as frame f, calls the method of frame callee
DoCall(f, callee, h) ==
    /\ stack' = Append(SetTop(f), callee)
    /\ hist' = h
    /\ UNCHANGED <<retval, result>>

\* an exception: connect's try/except (lines 53, 89-91) catches it and
\* returns -1; no other method catches, so the whole call ends with it
DoRaise(h) ==
    /\ stack' = <<>>
    /\ hist' = h
    /\ IF stack[1].fn = "connect"
       THEN retval' = Num(-1) /\ result' = Num(-1)
       ELSE retval' = Exc /\ result' = Exc

\* the call the orchestrator made
NoCall == [op |-> "", axis |-> 0, axes |-> None, pos |-> None, block |-> FALSE,
           timeout |-> 0, dir |-> ""]

\* what the session remembers of the call before the running one, when it
\* was a move that returned 0: its axes and offsets, the positions it read
\* and the targets it sent
NoPrev == [ok |-> FALSE, axes |-> <<>>, mm |-> <<>>, from |-> <<>>, to |-> <<>>]

\* The driver as __init__ leaves it (lines 35-42), for a session in which
\* the orchestrator makes the calls of `mode`.
InitWith(mode, extra, steps_per_mm) ==
    /\ self = [steps_per_mm |-> steps_per_mm, extra |-> extra,
               expected_lengths |-> LengthsOf(mode), homed |-> "None",
               keepout_zones |-> UserKeepout, axes |-> <<>>,
               current_position |-> <<>>, measured_lengths |-> <<>>,
               n_axes |-> 0]
    /\ stack = <<>>
    /\ retval = None
    /\ now = 0
    /\ hist = <<>>
    /\ call = NoCall
    /\ result = None
    /\ sess = [mode |-> mode, connects |-> 0, connected |-> FALSE,
               full_check_ok |-> FALSE, goto_all_ok |-> FALSE, prev |-> NoPrev,
               moves |-> 0]

InitOf(mode, extra) == InitWith(mode, extra, StepsPerMm)

\* line 28: the default of steps_per_mm
DefaultStepsPerMm == (motor_steps_per_rev * micro_stepping) \div screw_pitch

Init == InitOf("goto", "")

---------------------------------------------------------------------------
(* check_lengths, lines 101-133                                            *)

\* LengthOk without the upper end
LengthOk_NoUpper(driver_length, el, ald) ==
    driver_length > el - ald

\* line 117
LengthOk(driver_length, el, ald) ==
    (driver_length < el + ald) /\ (driver_length > el - ald)

\* lines 102-110
check_lengths_frame(axis) ==
    LET valid == IndexOf(self.axes, axis) # 0
    IN  [fn |-> "check_lengths", pc |-> "loop", axis |-> axis,
         to_check |-> IF axis = -1 THEN self.axes
                      ELSE IF valid THEN <<axis>> ELSE <<>>,
         i |-> 1,
         ret |-> IF axis # -1 /\ ~valid THEN -3 ELSE -9]

\* HomedAfterCheck without the else branch of lines 130-131
HomedAfterCheck_OnlyTrue(axis, ret, homed) ==
    IF axis = -1 /\ ret = 0 THEN "True" ELSE homed

\* HomedAfterCheck without the test of line 127
HomedAfterCheck_AnyAxis(axis, ret, homed) ==
    IF ret = 0 THEN "True" ELSE "False"

\* lines 127-131: the value of homed after a check over `axis` that gave ret
HomedAfterCheck(axis, ret, homed) ==
    IF axis = -1 THEN (IF ret = 0 THEN "True" ELSE "False") ELSE homed

\* lines 127-133, from the driver s and the events h
check_lengths_end(s, ret, h) ==
    LET axis == Top.axis
        h2 == IF axis = -1
              THEN Append(h, HomedEv("check_lengths", HomedAfterCheck(axis, ret, s.homed)))
              ELSE h
    IN  /\ self' = [s EXCEPT !.homed = HomedAfterCheck(axis, ret, s.homed)]
        /\ sess' = [sess EXCEPT !.full_check_ok = @ \/ (axis = -1 /\ ret = 0)]
        /\ DoReturn(Num(ret), h2)

\* RecordLength that keeps only a length that can be checked
RecordLength_OnlyPositive(s, idx, driver_length) ==
    IF IsNum(driver_length) /\ driver_length.v > 0
    THEN [s EXCEPT !.measured_lengths[idx] = driver_length]
    ELSE s

\* line 113: the length read is kept as the axis's measured length
RecordLength(s, idx, driver_length) ==
    [s EXCEPT !.measured_lengths[idx] = driver_length]

\* lines 111-126: one axis's length read and its classification
check_lengths_loop ==
    /\ At("check_lengths", "loop")
    /\ LET f == Top
       IN  IF f.i > Len(f.to_check)
           THEN check_lengths_end(self, f.ret, hist)
           ELSE LET ax == f.to_check[f.i]
                    idx == IndexOf(self.axes, ax)
                IN  \E driver_length \in LenReads(ax) :
                      LET h == Append(hist, CmdEv("l", ax, 0, "", driver_length))
                          s1 == RecordLength(self, idx, driver_length)
                          el == self.expected_lengths[idx]
                          ald == allowed_length_deviation * self.steps_per_mm
                      IN  IF driver_length = Exc
                          THEN DoRaise(h) /\ UNCHANGED <<self, sess>>
                          ELSE IF driver_length.k = "str"
                          THEN self' = s1 /\ DoRaise(h) /\ UNCHANGED sess
                          ELSE IF IsNum(driver_length) /\ driver_length.v > 0
                          THEN IF ~IsNum(el)
                               THEN self' = s1 /\ DoRaise(h) /\ UNCHANGED sess
                               ELSE IF LengthOk(driver_length.v, el.v, ald)
                               THEN IF f.i = Len(f.to_check)
                                    THEN check_lengths_end(s1, 0, h)
                                    ELSE /\ self' = s1
                                         /\ DoStep([f EXCEPT !.i = @ + 1, !.ret = 0], h)
                                         /\ UNCHANGED sess
                               ELSE check_lengths_end(s1, -1, h)
                          ELSE check_lengths_end(
                                   [s1 EXCEPT !.homed = "False"], -2,
                                   Append(h, HomedEv("check_lengths", "False")))
    /\ UNCHANGED <<now, call>>

---------------------------------------------------------------------------
(* connect, lines 47-91                                                    *)

connect_frame == [fn |-> "connect", pc |-> "start", axis |-> 0, i |-> 1,
                  user_expected_lengths |-> <<>>]

\* connect is called at the start of a session; the session of connections
\* calls it again
Call_connect ==
    /\ Idle
    /\ sess.connects < MaxConnects
    /\ sess.connects = 0 \/ sess.mode = "connect"
    /\ stack' = <<connect_frame>>
    /\ call' = [NoCall EXCEPT !.op = "connect"]
    /\ hist' = <<>>
    /\ now' = 0
    /\ result' = None
    /\ sess' = [sess EXCEPT !.connects = @ + 1]
    /\ UNCHANGED <<self, retval>>

\* lines 54-73 and, for a stage without axes, 85
connect_start ==
    /\ At("connect", "start")
    /\ \E resp \in BitmaskReads :
         LET h == Append(hist, CmdEv("e", 0, 0, "", resp))
             found == AxesOf(resp.v, 0)
             n == Len(found)
             nones == [i \in 1..n |-> None]
             f == [Top EXCEPT !.user_expected_lengths = self.expected_lengths]
         IN  IF ~IsNum(resp)
             THEN DoRaise(h) /\ UNCHANGED <<self, sess>>
             ELSE /\ self' = [self EXCEPT !.axes = found, !.current_position = nones,
                                          !.expected_lengths = nones,
                                          !.measured_lengths = nones, !.n_axes = n]
                  /\ IF n # Len(self.expected_lengths)
                     THEN DoReturn(Num(-1), h) /\ UNCHANGED sess
                     ELSE DoStep([f EXCEPT !.pc = "loop"], h) /\ UNCHANGED sess
    /\ UNCHANGED <<now, call>>

\* lines 75-85: read one axis's position and convert its expected length;
\* after the last axis, run the full-stage length check
connect_loop ==
    /\ At("connect", "loop")
    /\ LET f == Top
           i == f.i
       IN  IF i > self.n_axes
           THEN /\ DoCall([f EXCEPT !.pc = "after_check"], check_lengths_frame(-1), hist)
                /\ UNCHANGED self
           ELSE \E here \in PosReads :
                  LET h == Append(hist, CmdEv("r", self.axes[i], 0, "", here))
                      uel == f.user_expected_lengths[i]
                      pos == IF IsNum(here) THEN Num(to_mm(here.v)) ELSE here
                  IN  IF here = Exc
                      THEN DoRaise(h) /\ UNCHANGED self
                      ELSE IF ~IsNum(uel)
                      THEN /\ self' = [self EXCEPT !.current_position[i] = pos]
                           /\ DoRaise(h)
                      ELSE /\ self' = [self EXCEPT
                                         !.current_position[i] = pos,
                                         !.expected_lengths[i] =
                                             Num(uel.v * self.steps_per_mm)]
                           /\ DoStep([f EXCEPT !.i = i + 1], h)
    /\ UNCHANGED <<now, call, sess>>

\* lines 85-91
connect_after ==
    /\ At("connect", "after_check")
    /\ DoReturn(Num(0), hist)
    /\ sess' = [sess EXCEPT !.connected = TRUE]
    /\ UNCHANGED <<self, now, call>>


---------------------------------------------------------------------------
(* wait_for_home_or_jog, lines 250-282                                     *)

\* lines 263-266 and 277: the frame at the head of the loop over the axes,
\* about to wait for axis number i of to_wait_for at time t.  Once the
\* budget is used up no later axis is polled and ret stays -1.
WaitFor(f, i, t) ==
    IF i > Len(f.to_wait_for)
    THEN [f EXCEPT !.pc = "end", !.i = i]
    ELSE IF f.timeout - (t - f.t0) > 0
    THEN [f EXCEPT !.pc = "poll", !.i = i, !.ret = Num(-1),
                   !.time_left = f.timeout - (t - f.t0)]
    ELSE [f EXCEPT !.pc = "end", !.i = Len(f.to_wait_for) + 1, !.ret = Num(-1),
                   !.time_left = f.timeout - (t - f.t0)]

\* wait_for_home_or_jog_frame without the test of line 257
wait_for_home_or_jog_frame_AnyAxis(axis, timeout, t) ==
    LET f == [fn |-> "wait_for_home_or_jog", pc |-> "end", axis |-> axis,
              timeout |-> timeout, t0 |-> t,
              to_wait_for |-> IF axis = -1 THEN self.axes ELSE <<axis>>,
              i |-> 1, dims |-> <<>>, time_left |-> timeout,
              ret |-> Num(-9)]
    IN  WaitFor(f, 1, t)

\* lines 251-261, entered at time t
wait_for_home_or_jog_frame(axis, timeout, t) ==
    LET valid == IndexOf(self.axes, axis) # 0
        f == [fn |-> "wait_for_home_or_jog", pc |-> "end", axis |-> axis,
              timeout |-> timeout, t0 |-> t,
              to_wait_for |-> IF axis = -1 THEN self.axes
                              ELSE IF valid THEN <<axis>> ELSE <<>>,
              i |-> 1, dims |-> <<>>, time_left |-> timeout,
              ret |-> IF axis # -1 /\ ~valid THEN Num(-3) ELSE Num(-9)]
    IN  WaitFor(f, 1, t)

\* lines 267-270 and 277: one poll of the axis's length
wait_for_home_or_jog_poll ==
    /\ At("wait_for_home_or_jog", "poll")
    /\ LET f == Top
           ax == f.to_wait_for[f.i]
       IN  \E axl \in LenReads(ax) :
             LET h == Append(hist, CmdEv("l", ax, 0, "", axl))
             IN  IF axl.k = "str"
                 THEN DoRaise(h) /\ UNCHANGED now
                 ELSE IF IsNum(axl) /\ axl.v >= 0
                 THEN /\ DoStep([f EXCEPT !.dims = Append(@, axl.v), !.ret = Num(0),
                                          !.pc = "pos"], h)
                      /\ UNCHANGED now
                 ELSE /\ now' = now + 1
                      /\ DoStep(IF f.timeout - (now + 1 - f.t0) > 0
                                THEN [f EXCEPT !.time_left = f.timeout - (now + 1 - f.t0)]
                                ELSE WaitFor(f, f.i + 1, now + 1), h)
    /\ UNCHANGED <<self, call, sess>>

\* lines 271-276: the finished axis's position is read and cached
wait_for_home_or_jog_pos ==
    /\ At("wait_for_home_or_jog", "pos")
    /\ LET f == Top
           ax == f.to_wait_for[f.i]
       IN  \E r \in PosReads :
             LET h == Append(hist, CmdEv("r", ax, 0, "", r))
             IN  IF ~IsNum(r)
                 THEN DoRaise(h) /\ UNCHANGED self
                 ELSE /\ self' = [self EXCEPT
                                    !.current_position[IndexOf(self.axes, ax)] =
                                        Num(to_mm(r.v))]
                      /\ IF f.axis # -1
                         THEN DoCall([f EXCEPT !.pc = "after_check"],
                                     check_lengths_frame(ax), h)
                         ELSE DoStep(WaitFor(f, f.i + 1, now), h)
    /\ UNCHANGED <<now, call, sess>>

\* line 276, after check_lengths(ax) of line 275
wait_for_home_or_jog_after_check ==
    /\ At("wait_for_home_or_jog", "after_check")
    /\ DoStep(WaitFor(Top, Top.i + 1, now), hist)
    /\ UNCHANGED <<self, now, call, sess>>

\* lines 278-281
\* line 280: the wait ends with a check of the whole stage
FinalCheck_Never(axis) == FALSE
FinalCheck(axis) == axis = -1

wait_for_home_or_jog_end ==
    /\ At("wait_for_home_or_jog", "end")
    /\ LET f == Top
           ret == IF f.ret = Num(0) THEN List(f.dims) ELSE f.ret
       IN  IF FinalCheck(f.axis)
           THEN DoCall([f EXCEPT !.pc = "final", !.ret = ret],
                       check_lengths_frame(-1), hist)
           ELSE DoReturn(ret, hist)
    /\ UNCHANGED <<self, now, call, sess>>

\* line 282, after the full-stage check of line 281
wait_for_home_or_jog_final ==
    /\ At("wait_for_home_or_jog", "final")
    /\ DoReturn(Top.ret, hist)
    /\ UNCHANGED <<self, now, call, sess>>

---------------------------------------------------------------------------
(* goto, lines 396-490                                                     *)

SeqMin(s) == CHOOSE x \in {s[i] : i \in 1..Len(s)} : \A j \in 1..Len(s) : x <= s[j]
SeqMax(s) == CHOOSE x \in {s[i] : i \in 1..Len(s)} : \A j \in 1..Len(s) : x >= s[j]

\* LengthKnown with 0 taken for a length
LengthKnown_ZeroOk(axl) == IsNum(axl) /\ axl.v >= 0

\* line 422: the axis reported a length
LengthKnown(axl) == IsNum(axl) /\ axl.v > 0

\* InBounds without the keepout test
InBounds_NoKeepout(np, axmin, axmax, koz_min, koz_max) ==
    np >= axmin /\ np <= axmax

\* lines 434-436: the target is between the end buffers and outside the
\* keepout zone, all in steps
InBounds(np, axmin, axmax, koz_min, koz_max) ==
    (np >= axmin /\ np <= axmax) /\ ~(np >= koz_min /\ np <= koz_max)

\* GotoStopRet without the test of line 474: the last axis decides
GotoStopRet_LastWins(ret, q0, np) ==
    IF q0 # Num(np) THEN -8 ELSE 0

\* GotoStopRet without the comparison with the target
GotoStopRet_NoStall(ret, q0, np) ==
    IF ret # -8 THEN 0 ELSE ret

\* lines 465-475: ret once the axis is seen stopped at q0, its target being np
GotoStopRet(ret, q0, np) ==
    IF q0 # Num(np) THEN -8 ELSE IF ret # -8 THEN 0 ELSE ret

\* GotoSetsHomed without the test of ret
GotoSetsHomed_AnyResult(ret, n_targeted, n_axes) ==
    n_targeted = n_axes

\* GotoSetsHomed with the assignment forgotten
GotoSetsHomed_Never(ret, n_targeted, n_axes) ==
    FALSE

\* line 488: a goto over n_targeted axes that gives ret asserts homed
GotoSetsHomed(ret, n_targeted, n_axes) ==
    (ret = 0) /\ (n_targeted = n_axes)

\* lines 458-460 and 479-480: the frame at the head of the loop that waits
\* for axis number i of axes at time t.  With the budget used up the axis
\* and every later one only set ret to -1.
\* lines 479-480: an axis whose budget ran out sets ret to -1, whatever ret was
GotoTimeoutRet_StallSticks(ret) == IF ret = -8 THEN -8 ELSE -1
GotoTimeoutRet(ret) == -1

GotoWaitFor(f, i, t) ==
    IF i > Len(f.axes)
    THEN [f EXCEPT !.pc = "end", !.i = i]
    ELSE IF f.timeout - (t - f.t0) > 0
    THEN [f EXCEPT !.pc = "wait", !.i = i, !.q = <<Num(-1000), Num(-2000)>>,
                   !.time_left = f.timeout - (t - f.t0)]
    ELSE [f EXCEPT !.pc = "end", !.i = Len(f.axes) + 1, !.ret = GotoTimeoutRet(f.ret),
                   !.time_left = f.timeout - (t - f.t0)]

\* the targets of a caller, a number or a list of numbers in mm units, as
\* the floats the caller passes
FloatArg(new_pos) ==
    IF IsList(new_pos)
    THEN List([k \in 1..Len(new_pos.l) |-> PyFloat(new_pos.l[k])])
    ELSE List(<<PyFloat(new_pos.v)>>)

\* lines 400-416, entered at time t: new_pos is a list of floats (a number
\* is put in a list, lines 404-405), axes a number or a list.  The list
\* new_pos holds millimetres first and steps after line 420: the frame keeps
\* the millimetres as mm and the steps, once converted, as new_pos
goto_frame(new_pos, axes, block, timeout, t) ==
    LET np == new_pos.l
        axs == IF IsList(axes) THEN axes.l
               ELSE IF axes.v = -1 THEN self.axes ELSE <<axes.v>>
    IN  [fn |-> "goto", axis |-> 0, mm |-> np,
         new_pos |-> [k \in 1..Len(np) |-> 0], axes |-> axs, block |-> block,
         timeout |-> timeout, t0 |-> t, i |-> 1,
         q |-> <<Num(-1000), Num(-2000)>>, time_left |-> timeout,
         ret |-> IF Len(np) # Len(axs) THEN -7 ELSE -9,
         pc |-> IF Len(np) # Len(axs) \/ Len(axs) = 0 THEN "end" ELSE "check"]

\* lines 419-446: one axis's target is converted and checked against the
\* length read from the link.  Line 425 looks the axis's keepout zone up by
\* the place of the axis on the stage: it raises ValueError for an axis the
\* stage does not have and IndexError when the stage has more axes than
\* keepout_zones has entries
goto_check ==
    /\ At("goto", "check")
    /\ LET f == Top
           i == f.i
           ax == f.axes[i]
           np == to_steps(f.mm[i])
           f1 == [f EXCEPT !.new_pos[i] = np]
           ebs == end_buffers * self.steps_per_mm
           idx == IndexOf(self.axes, ax)
       IN  \E axl \in LenReads(ax) :
             LET h == Append(hist, CmdEv("l", ax, 0, "", axl))
             IN  IF axl.k = "str"
                 THEN DoRaise(h) /\ UNCHANGED self
                 ELSE IF LengthKnown(axl)
                 THEN IF idx = 0 \/ idx > Len(self.keepout_zones)
                      THEN DoRaise(h) /\ UNCHANGED self
                      ELSE LET koz == IF Len(self.keepout_zones[idx]) = 0
                                      THEN <<-10, -10>>
                                      ELSE self.keepout_zones[idx]
                               koz_min == SeqMin(koz) * self.steps_per_mm
                               koz_max == SeqMax(koz) * self.steps_per_mm
                           IN  /\ self' = [self EXCEPT !.keepout_zones[idx] = koz]
                               /\ IF InBounds(np, ebs, axl.v - ebs, koz_min, koz_max)
                                  THEN DoStep([f1 EXCEPT
                                                 !.ret = 0,
                                                 !.i = IF i = Len(f.axes) THEN 1 ELSE i + 1,
                                                 !.pc = IF i = Len(f.axes)
                                                        THEN "initiate" ELSE "check"], h)
                                  ELSE DoStep([f1 EXCEPT !.ret = -6, !.pc = "end"], h)
                 ELSE /\ self' = [self EXCEPT !.homed = "False"]
                      /\ DoStep([f1 EXCEPT !.ret = -2, !.pc = "end"],
                                Append(h, HomedEv("goto", "False")))
    /\ UNCHANGED <<now, call, sess>>

\* lines 448-456: one axis's move command
\* line 449: the move command of the i-th axis carries the i-th target
MoveCommand_FirstTarget(f, i, resp) == CmdEv("g", f.axes[i], f.new_pos[1], "", resp)
MoveCommand(f, i, resp) == CmdEv("g", f.axes[i], f.new_pos[i], "", resp)

goto_initiate ==
    /\ At("goto", "initiate")
    /\ LET f == Top
           i == f.i
       IN  \E resp \in AckReads :
             LET h == Append(hist, MoveCommand(f, i, resp))
                 ret == IF resp = Str(0) THEN 0 ELSE -2
                 f1 == [f EXCEPT !.ret = ret]
             IN  IF ret = 0 /\ i < Len(f.axes)
                 THEN DoStep([f1 EXCEPT !.i = i + 1], h)
                 ELSE IF f.block
                 THEN DoStep(GotoWaitFor(f1, 1, now), h)
                 ELSE DoStep([f1 EXCEPT !.pc = "end"], h)
    /\ UNCHANGED <<self, now, call, sess>>

\* lines 461-487: one position read of the axis being waited for.  Two equal
\* reads that are not numbers end the call with the TypeError of line 470.
goto_wait ==
    /\ At("goto", "wait")
    /\ LET f == Top
           i == f.i
           ax == f.axes[i]
       IN  \E r \in PosReads :
             LET h == Append(hist, CmdEv("r", ax, 0, "", r))
                 q == <<f.q[2], r>>
                 f1 == [f EXCEPT !.q = q]
             IN  IF q[1] = q[2]
                 THEN LET f2 == [f1 EXCEPT !.ret = GotoStopRet(f.ret, q[1], f.new_pos[i])]
                      IN  IF ~IsNum(q[1]) \/ i > Len(self.current_position)
                          THEN DoRaise(h) /\ UNCHANGED <<self, now>>
                          ELSE /\ self' = [self EXCEPT !.current_position[i] =
                                             Num(to_mm(q[1].v))]
                               /\ DoStep(GotoWaitFor(f2, i + 1, now), h)
                               /\ UNCHANGED now
                 ELSE /\ now' = now + 1
                      /\ DoStep(IF f.timeout - (now + 1 - f.t0) > 0
                                THEN [f1 EXCEPT !.time_left = f.timeout - (now + 1 - f.t0)]
                                ELSE GotoWaitFor(f1, i, now + 1), h)
                      /\ UNCHANGED self
    /\ UNCHANGED <<call, sess>>

\* lines 488-490
goto_end ==
    /\ At("goto", "end")
    /\ LET f == Top
           sets == GotoSetsHomed(f.ret, Len(f.axes), self.n_axes)
       IN  /\ self' = [self EXCEPT !.homed = IF sets THEN "True" ELSE @]
           /\ sess' = [sess EXCEPT !.goto_all_ok =
                                      @ \/ (f.ret = 0 /\ Len(f.axes) = self.n_axes)]
           /\ DoReturn(Num(f.ret),
                       IF sets THEN Append(hist, HomedEv("goto", "True")) ELSE hist)
    /\ UNCHANGED <<now, call>>

---------------------------------------------------------------------------
(* jog, lines 224-241                                                      *)

\* Acknowledged without the test
Acknowledged_Any(res) == TRUE

\* lines 165 and 231: the link answered the command with the empty string
Acknowledged(res) == res = Str(0)

jog_frame(axis, direction, block, timeout, t) ==
    [fn |-> "jog", pc |-> "start", axis |-> axis, direction |-> direction,
     block |-> block, timeout |-> timeout, t0 |-> t]

\* lines 225-240
jog_start ==
    /\ At("jog", "start")
    /\ LET f == Top
       IN  IF IndexOf(self.axes, f.axis) = 0
           THEN DoReturn(Num(-3), hist)
           ELSE \E res \in AckReads :
                  LET h == Append(hist, CmdEv("j", f.axis, 0, f.direction, res))
                  IN  IF ~Acknowledged(res)
                      THEN DoReturn(Num(-2), h)
                      ELSE IF f.block
                      THEN DoCall([f EXCEPT !.pc = "after_wait"],
                                  wait_for_home_or_jog_frame(
                                      f.axis, f.timeout - (now - f.t0), now), h)
                      ELSE DoReturn(Num(0), h)
    /\ UNCHANGED <<self, now, call, sess>>

\* lines 236-241: [0] becomes 0, any other value is returned as it is
jog_after_wait ==
    /\ At("jog", "after_wait")
    /\ DoReturn(IF retval = List(<<0>>) THEN Num(0) ELSE retval, hist)
    /\ UNCHANGED <<self, now, call, sess>>

---------------------------------------------------------------------------
(* home, lines 148-174, and otter_home, lines 189-214                      *)

home_frame(axis, block, timeout, enable_otter, t) ==
    [fn |-> "home", pc |-> "start", axis |-> axis, block |-> block,
     timeout |-> timeout, enable_otter |-> enable_otter, t0 |-> t]

otter_home_frame(safex, timeout, t) ==
    [fn |-> "otter_home", pc |-> "start", axis |-> -1, safex |-> safex,
     timeout |-> timeout, t0 |-> t, dims |-> <<0, 0>>]

\* WholeStageBlocking without the test
WholeStageBlocking_Any(axis, block) == TRUE

\* line 152: the only home the otter stage does
WholeStageBlocking(axis, block) == axis = -1 /\ block

\* lines 149-173
home_start ==
    /\ At("home", "start")
    /\ LET f == Top
           time_left == f.timeout - (now - f.t0)
       IN  IF self.extra = "otter" /\ f.enable_otter
           THEN IF WholeStageBlocking(f.axis, f.block)
                THEN DoCall([f EXCEPT !.pc = "after"],
                            otter_home_frame(otter_safe_x, time_left, now), hist)
                ELSE DoReturn(Num(-4), hist)
           ELSE IF f.axis # -1 /\ IndexOf(self.axes, f.axis) = 0
           THEN DoReturn(Num(-3), hist)
           ELSE \E res \in AckReads :
                  LET h == Append(hist, CmdEv("h", f.axis, 0, "", res))
                  IN  IF ~Acknowledged(res)
                      THEN DoReturn(Num(-2), h)
                      ELSE IF f.block
                      THEN DoCall([f EXCEPT !.pc = "after"],
                                  wait_for_home_or_jog_frame(f.axis, time_left, now), h)
                      ELSE DoReturn(Num(0), h)
    /\ UNCHANGED <<self, now, call, sess>>

\* line 174, with the value of otter_home (154) or wait_for_home_or_jog (171)
home_after ==
    /\ At("home", "after")
    /\ DoReturn(retval, hist)
    /\ UNCHANGED <<self, now, call, sess>>

\* JogDone with the test of line 194 dropped
JogDone_Always(ret) == TRUE

\* line 194: the jog of axis 2 succeeded
JogDone(ret) == ret = Num(0)

\* LengthChecked with the test of line 200 dropped
LengthChecked_Always(ret) == TRUE

\* line 200: axis 1 has the expected length
LengthChecked(ret) == ret = Num(0)

\* lines 190-193
otter_home_start ==
    /\ At("otter_home", "start")
    /\ DoCall([Top EXCEPT !.pc = "after_jog"],
              jog_frame(2, "b", TRUE, Top.timeout, now), hist)
    /\ UNCHANGED <<self, now, call, sess>>

\* lines 194-196
otter_home_after_jog ==
    /\ At("otter_home", "after_jog")
    /\ LET f == Top
       IN  IF JogDone(retval)
           THEN DoCall([f EXCEPT !.pc = "after_home1"],
                       home_frame(1, TRUE, f.timeout - (now - f.t0), FALSE, now), hist)
           ELSE DoReturn(retval, hist)
    /\ UNCHANGED <<self, now, call, sess>>

\* lines 197-199
otter_home_after_home1 ==
    /\ At("otter_home", "after_home1")
    /\ LET f == Top
       IN  IF IsList(retval)
           THEN DoCall([f EXCEPT !.pc = "after_check", !.dims[1] = retval.l[1]],
                       check_lengths_frame(1), hist)
           ELSE DoReturn(retval, hist)
    /\ UNCHANGED <<self, now, call, sess>>

\* lines 200-202 and 212-213
otter_home_after_check ==
    /\ At("otter_home", "after_check")
    /\ LET f == Top
       IN  IF LengthChecked(retval)
           THEN DoCall([f EXCEPT !.pc = "after_goto"],
                       goto_frame(FloatArg(Num(Mm(f.safex, self.steps_per_mm))), Num(1), TRUE,
                                  f.timeout - (now - f.t0), now), hist)
           ELSE DoReturn(Num(-5), hist)
    /\ UNCHANGED <<self, now, call, sess>>

\* lines 203-207
otter_home_after_goto ==
    /\ At("otter_home", "after_goto")
    /\ LET f == Top
       IN  IF retval = Num(0)
           THEN DoCall([f EXCEPT !.pc = "after_home2"],
                       home_frame(2, TRUE, f.timeout - (now - f.t0), FALSE, now), hist)
           ELSE DoReturn(retval, hist)
    /\ UNCHANGED <<self, now, call, sess>>

\* lines 208-211
otter_home_after_home2 ==
    /\ At("otter_home", "after_home2")
    /\ LET f == Top
       IN  IF IsList(retval)
           THEN DoCall([f EXCEPT !.pc = "final", !.dims[2] = retval.l[1]],
                       check_lengths_frame(-1), hist)
           ELSE DoReturn(retval, hist)
    /\ UNCHANGED <<self, now, call, sess>>

\* line 214, after the full-stage check of line 211
otter_home_final ==
    /\ At("otter_home", "final")
    /\ DoReturn(List(Top.dims), hist)
    /\ UNCHANGED <<self, now, call, sess>>

---------------------------------------------------------------------------
(* estop, lines 356-380                                                    *)

\* EstopFold without the test of line 376: the last answer wins
EstopFold_LastWins(ret, resp) ==
    IF resp = Str(0) THEN 0 ELSE -2

\* lines 376-379: ret after the stop of one axis was answered with resp
EstopFold(ret, resp) ==
    IF resp = Str(0) THEN (IF ret # -2 THEN 0 ELSE ret) ELSE -2

\* lines 360-366 and 373: axes is a number or a list
estop_frame(axes) ==
    LET axs == IF IsList(axes) THEN axes.l
               ELSE IF axes.v = -1 THEN self.axes ELSE <<axes.v>>
    IN  [fn |-> "estop", axis |-> 0, axes |-> axs, i |-> 1, ret |-> -9,
         pc |-> IF Len(axs) = self.n_axes THEN "all"
                ELSE IF Len(axs) = 0 THEN "end" ELSE "each"]

\* lines 366-371: one stop command for the whole stage
estop_all ==
    /\ At("estop", "all")
    /\ \E resp \in AckReads :
         DoReturn(Num(IF resp = Str(0) THEN 0 ELSE -2),
                  Append(hist, CmdEv("b", -1, 0, "", resp)))
    /\ UNCHANGED <<self, now, call, sess>>

\* line 373: the loop over the listed axes ends after the last of them, and
\* not before
EstopLast_UntilRejected(f, ret) == f.i = Len(f.axes) \/ ret = -2
EstopLast(f, ret) == f.i = Len(f.axes)

\* lines 373-380: the stop command of one axis of the list
estop_each ==
    /\ At("estop", "each")
    /\ LET f == Top
       IN  \E resp \in AckReads :
             LET h == Append(hist, CmdEv("b", f.axes[f.i], 0, "", resp))
                 ret == EstopFold(f.ret, resp)
             IN  IF EstopLast(f, ret)
                 THEN DoReturn(Num(ret), h)
                 ELSE DoStep([f EXCEPT !.i = @ + 1, !.ret = ret], h)
    /\ UNCHANGED <<self, now, call, sess>>

\* lines 373 and 380, for an empty list of axes on a stage that has axes
estop_end ==
    /\ At("estop", "end")
    /\ DoReturn(Num(Top.ret), hist)
    /\ UNCHANGED <<self, now, call, sess>>

---------------------------------------------------------------------------
(* move, lines 321-354                                                     *)

\* PositionKnown with 0 taken for a position
PositionKnown_ZeroOk(here) == IsNum(here) /\ here.v >= 0

\* line 346
PositionKnown(here) == IsNum(here) /\ here.v > 0

\* MoveTarget without the offset
MoveTarget_NoOffset(here, mm) == Float(here, self.steps_per_mm)

\* line 347: here / self.steps_per_mm + mm[i], for the steps read and the
\* offset the caller gave (in mm units): the quotient is rounded to a
\* float, the offset is a float, and their sum is rounded to a float
MoveTarget(here, mm) == FloatAdd(Float(here, self.steps_per_mm), PyFloat(mm))

\* lines 327-342
move_frame(mm, axes, block, timeout, t) ==
    LET ms == IF IsList(mm) THEN mm.l ELSE <<mm.v>>
        axs == IF IsList(axes) THEN axes.l
               ELSE IF axes.v = -1 THEN self.axes ELSE <<axes.v>>
    IN  [fn |-> "move", axis |-> 0, mm |-> ms, axes |-> axs, block |-> block,
         timeout |-> timeout, t0 |-> t, i |-> 1,
         where |-> [k \in 1..Len(ms) |-> Float(0, 1)],
         ret |-> IF Len(ms) # Len(axs) THEN -7 ELSE -9,
         pc |-> IF Len(ms) # Len(axs) THEN "end"
                ELSE IF Len(axs) = 0 THEN "call" ELSE "read"]

\* lines 344-350: the position of one axis is read and offset
move_read ==
    /\ At("move", "read")
    /\ LET f == Top
           i == f.i
           ax == f.axes[i]
       IN  \E here \in PosReads :
             LET h == Append(hist, CmdEv("r", ax, 0, "", here))
             IN  IF here.k = "str"
                 THEN DoRaise(h)
                 ELSE IF PositionKnown(here)
                 THEN DoStep([f EXCEPT !.where[i] = MoveTarget(here.v, f.mm[i]),
                                       !.i = i + 1,
                                       !.pc = IF i = Len(f.axes) THEN "call" ELSE "read"],
                             h)
                 ELSE DoReturn(Num(-2), h)
    /\ UNCHANGED <<self, now, call, sess>>

\* lines 351-353
move_call ==
    /\ At("move", "call")
    /\ LET f == Top
           time_left == f.timeout - (now - f.t0)
       IN  DoCall([f EXCEPT !.pc = "after"],
                  goto_frame(List(f.where), List(f.axes), f.block, time_left, now),
                  hist)
    /\ UNCHANGED <<self, now, call, sess>>

\* line 354, with the value of goto
move_after ==
    /\ At("move", "after")
    /\ DoReturn(retval, hist)
    /\ UNCHANGED <<self, now, call, sess>>

\* line 354, when the lists did not match
move_end ==
    /\ At("move", "end")
    /\ DoReturn(Num(Top.ret), hist)
    /\ UNCHANGED <<self, now, call, sess>>

---------------------------------------------------------------------------
(* get_position (lines 287-305)                                            *)

\* lines 288-293: a number that is not -1 is one axis, -1 is every axis
get_position_frame(axes) ==
    LET axs == IF IsList(axes) THEN axes.l
               ELSE IF axes.v = -1 THEN self.axes ELSE <<axes.v>>
    IN  [fn |-> "get_position", axis |-> 0, axes |-> axs, i |-> 1, ret |-> <<>>,
         pc |-> IF Len(axs) = 0 THEN "end" ELSE "home_check"]

\* line 298: the first read tells whether the axis has a position
HomeChecked(home_check) == IsNum(home_check) /\ home_check.v > 0

\* lines 303-304: pos is appended to the list and cached at the place of the
\* axis; index() raises ValueError for an axis the stage does not have
get_position_store(f, pos, h) ==
    LET idx == IndexOf(self.axes, f.axes[f.i])
    IN  IF idx = 0
        THEN DoRaise(h) /\ UNCHANGED self
        ELSE /\ self' = [self EXCEPT !.current_position[idx] = pos]
             /\ DoStep([f EXCEPT !.ret = Append(@, pos), !.i = @ + 1,
                                 !.pc = IF f.i = Len(f.axes) THEN "end"
                                        ELSE "home_check"], h)

\* lines 297-298, and 301-304 when the first read gives no position; an
\* answer that is a string is not None and its comparison with 0 raises
\* TypeError (line 298)
get_position_home_check ==
    /\ At("get_position", "home_check")
    /\ LET f == Top
           ax == f.axes[f.i]
       IN  \E home_check \in PosReads :
             LET h == Append(hist, CmdEv("r", ax, 0, "", home_check))
             IN  IF home_check.k \in {"str", "exc"}
                 THEN DoRaise(h) /\ UNCHANGED self
                 ELSE IF HomeChecked(home_check)
                 THEN DoStep([f EXCEPT !.pc = "steps"], h) /\ UNCHANGED self
                 ELSE get_position_store(f, None, h)
    /\ UNCHANGED <<now, call, sess>>

\* lines 299-300, 303-304: the second read is divided by steps_per_mm as it
\* comes; None / steps_per_mm and '' / steps_per_mm raise TypeError
get_position_steps ==
    /\ At("get_position", "steps")
    /\ LET f == Top
           ax == f.axes[f.i]
       IN  \E steps \in PosReads :
             LET h == Append(hist, CmdEv("r", ax, 0, "", steps))
             IN  IF ~IsNum(steps)
                 THEN DoRaise(h) /\ UNCHANGED self
                 ELSE get_position_store(f, Num(to_mm(steps.v)), h)
    /\ UNCHANGED <<now, call, sess>>

\* line 305
get_position_end ==
    /\ At("get_position", "end")
    /\ DoReturn(List(Top.ret), hist)
    /\ UNCHANGED <<self, now, call, sess>>

---------------------------------------------------------------------------
(* The calls the orchestrator makes on a connected driver.                 *)

BeginWith(frame, c, s) ==
    /\ Idle /\ sess.connected
    /\ stack' = <<frame>>
    /\ call' = c
    /\ hist' = <<>>
    /\ now' = 0
    /\ result' = None
    /\ sess' = s
    /\ UNCHANGED <<self, retval>>

Begin(frame, c) == BeginWith(frame, c, sess)

Call_check_lengths ==
    \E axis \in {-1, 1, 2, 3} :
      Begin(check_lengths_frame(axis),
            [NoCall EXCEPT !.op = "check_lengths", !.axis = axis])

Call_wait_for_home_or_jog ==
    \E axis \in (IF OtterSession THEN {} ELSE {-1, 1, 3}), timeout \in Timeouts :
      Begin(wait_for_home_or_jog_frame(axis, timeout, 0),
            [NoCall EXCEPT !.op = "wait_for_home_or_jog", !.axis = axis,
                           !.timeout = timeout])

HomeAxes == IF sess.mode = "stage" \/ OtterSession THEN {-1} ELSE {-1, 1, 3}

Call_home ==
    \E axis \in HomeAxes, b \in Blocking :
      Begin(home_frame(axis, b[1], b[2], TRUE, 0),
            [NoCall EXCEPT !.op = "home", !.axis = axis, !.block = b[1],
                           !.timeout = b[2]])

Call_jog ==
    \E axis \in (IF OtterSession THEN {} ELSE {2, 3}), b \in Blocking :
      Begin(jog_frame(axis, "a", b[1], b[2], 0),
            [NoCall EXCEPT !.op = "jog", !.axis = axis, !.block = b[1],
                           !.timeout = b[2], !.dir = "a"])

\* the axes of an estop: the whole stage, one axis, two of the three axes in
\* either order, all three as a list, and no axis
EstopArgs ==
    {Num(-1), Num(2), List(<<2, 3>>), List(<<3, 2>>), List(<<1, 3>>),
     List(<<1, 2, 3>>), List(<<>>)}

Call_estop ==
    \E axes \in EstopArgs :
      Begin(estop_frame(axes), [NoCall EXCEPT !.op = "estop", !.axes = axes])

\* the targets and axes of a goto: the whole stage, one axis, an axis list in
\* another order, a list of targets of the wrong length, and an axis list
\* that names an axis the stage does not have; on the stage of three axes,
\* which was built with two keepout zones, the third axis and the first
GotoArgs ==
    IF OtterSession THEN {}
    ELSE IF sess.mode = "goto"
    THEN {<<List(<<a, Valid>>), Num(-1)>> : a \in {Below, InZone, Valid, Beyond, HalfStep}}
         \cup {<<List(<<Valid, b>>), Num(-1)>> : b \in {Below, InZone, Beyond}}
         \cup {<<Num(Valid), Num(1)>>, <<Num(InZone), Num(2)>>, <<Num(Valid), Num(2)>>,
               <<List(<<Valid, Valid>>), List(<<2, 1>>)>>, <<Num(Valid), Num(-1)>>,
               <<List(<<Valid, Below>>), List(<<3, 1>>)>>}
    ELSE IF sess.mode = "deadline"
    THEN {<<List(<<Valid, Valid>>), Num(-1)>>, <<List(<<HalfStep, Valid>>), Num(-1)>>}
    ELSE IF sess.mode = "estop"
    THEN {<<Num(Valid), Num(3)>>, <<Num(InZone), Num(3)>>, <<Num(Valid), Num(1)>>}
    ELSE {<<List(<<Valid, Valid>>), Num(-1)>>}

Call_goto ==
    \E a \in GotoArgs, b \in Blocking :
      Begin(goto_frame(FloatArg(a[1]), a[2], b[1], b[2], 0),
            [NoCall EXCEPT !.op = "goto", !.pos = a[1], !.axes = a[2],
                           !.block = b[1], !.timeout = b[2]])

\* the axes of a position query: the whole stage, one axis, both axes in
\* the other order, no axis, and an axis the stage does not have
PositionArgs == {Num(-1), Num(1), Num(2), List(<<2, 1>>), List(<<>>), Num(3)}

Call_get_position ==
    \E axes \in PositionArgs :
      Begin(get_position_frame(axes),
            [NoCall EXCEPT !.op = "get_position", !.axes = axes])

\* the offsets and axes of a move: the whole stage, one axis forth and back
\* by 20 mm and by a step and a half, offsets that do not match the axes, no
\* axis at all, and an axis the stage does not have; in the session about
\* deadlines one axis by 20 mm, and two offsets for one axis
MoveArgs ==
    IF OtterSession THEN {}
    ELSE IF sess.mode = "deadline"
    THEN {<<Num(Offset20), Num(1)>>, <<List(<<Offset20, Offset20>>), Num(1)>>}
    ELSE
    {<<List(<<Offset20, Offset20>>), Num(-1)>>,
     <<Num(Offset20), Num(1)>>, <<Num(-Offset20), Num(1)>>,
     <<Num(OffsetSmall), Num(1)>>, <<Num(-OffsetSmall), Num(1)>>,
     <<Num(Offset20), Num(-1)>>, <<List(<<>>), List(<<>>)>>,
     <<Num(Offset20), Num(3)>>}

\* the move that has just returned 0, as the next call will remember it;
\* moves are remembered in pairs, the second of a pair is not
MoveDone ==
    IF call.op = "move" /\ result = Num(0) /\ IsNum(call.pos) /\ ~sess.prev.ok
    THEN [ok |-> TRUE, axes |-> <<call.axes.v>>, mm |-> <<call.pos.v>>,
          from |-> <<hist[1].val.v>>, to |-> <<hist[3].arg>>]
    ELSE NoPrev

Call_move ==
    /\ sess.mode = "move" => sess.moves < MaxMoves
    /\ \E a \in MoveArgs,
          b \in (IF sess.mode = "deadline" THEN Blocking
                 ELSE {<<FALSE, MaxTimeout>>, <<TRUE, MaxTimeout>>}) :
      BeginWith(move_frame(a[1], a[2], b[1], b[2], 0),
                [NoCall EXCEPT !.op = "move", !.pos = a[1], !.axes = a[2],
                               !.block = b[1], !.timeout = b[2]],
                IF sess.mode = "move"
                THEN [sess EXCEPT !.prev = MoveDone, !.moves = @ + 1]
                ELSE sess)

---------------------------------------------------------------------------
(* The specifications: the driver's methods, under the calls of a session. *)

Connect == Call_connect \/ connect_start \/ connect_loop \/ connect_after

Goto == goto_check \/ goto_initiate \/ goto_wait \/ goto_end

Wait ==
    \/ wait_for_home_or_jog_poll \/ wait_for_home_or_jog_pos
    \/ wait_for_home_or_jog_end

Otter ==
    \/ otter_home_start \/ otter_home_after_jog \/ otter_home_after_home1
    \/ otter_home_after_check \/ otter_home_after_goto \/ otter_home_after_home2
    \/ otter_home_final

\* goto on a connected stage
Next == Connect \/ check_lengths_loop \/ Call_goto \/ Goto

Spec == Init /\ [][Next]_vars

\* length checks, and the whole-stage goto
NextCheck == Connect \/ check_lengths_loop \/ Call_check_lengths \/ Call_goto \/ Goto

SpecCheck == InitOf("check", "") /\ [][NextCheck]_vars

\* whole-stage homing and goto, on a plain stage and on the otter stage,
\* where the home of the whole stage is the composite homing
NextStage ==
    \/ Connect \/ check_lengths_loop \/ Call_goto \/ Goto
    \/ Call_home \/ home_start \/ home_after \/ Wait
    \/ wait_for_home_or_jog_after_check \/ wait_for_home_or_jog_final
    \/ jog_start \/ jog_after_wait \/ Otter

SpecStage ==
    /\ InitOf("stage", "") \/ InitOf("stage", "otter")
    /\ [][NextStage]_vars

\* homing on the otter stage
NextOtter ==
    \/ Connect \/ check_lengths_loop \/ Goto
    \/ Call_home \/ home_start \/ home_after \/ Wait
    \/ wait_for_home_or_jog_after_check
    \/ jog_start \/ jog_after_wait \/ Otter

SpecOtter == InitOf("otter", "otter") /\ [][NextOtter]_vars

\* emergency stops, and gotos of one axis, on a stage of three axes that was
\* built with two keepout zones
Estop == estop_all \/ estop_each \/ estop_end

NextEstop ==
    \/ Connect \/ check_lengths_loop \/ Call_estop \/ Estop
    \/ Call_goto \/ Goto

SpecEstop == InitOf("estop", "") /\ [][NextEstop]_vars

\* waiting for a homing or a jog to finish
NextWait ==
    \/ Connect \/ check_lengths_loop \/ Call_wait_for_home_or_jog \/ Wait
    \/ wait_for_home_or_jog_after_check \/ wait_for_home_or_jog_final

SpecWait == InitOf("wait", "") /\ [][NextWait]_vars

\* homing, jogging and waiting, each called by itself
NextJog ==
    \/ Connect \/ check_lengths_loop
    \/ Call_home \/ home_start \/ home_after
    \/ Call_jog \/ jog_start \/ jog_after_wait
    \/ Call_wait_for_home_or_jog \/ Wait
    \/ wait_for_home_or_jog_after_check \/ wait_for_home_or_jog_final

SpecJog == InitOf("jog", "") /\ [][NextJog]_vars

\* relative moves
Move == move_read \/ move_call \/ move_after \/ move_end

NextMove == Connect \/ check_lengths_loop \/ Call_move \/ Move \/ Goto

SpecMove == InitOf("move", "") /\ [][NextMove]_vars

\* connecting, and connecting again
NextConnect == Connect \/ check_lengths_loop

SpecConnect == InitOf("connect", "") /\ [][NextConnect]_vars

\* position queries
NextPosition ==
    \/ Connect \/ check_lengths_loop \/ Call_get_position
    \/ get_position_home_check \/ get_position_steps \/ get_position_end

SpecPosition == InitOf("position", "") /\ [][NextPosition]_vars

\* blocking calls and their deadlines: home, jog, wait_for_home_or_jog, goto
\* and move on a plain stage, the composite homing on the otter stage.  The
\* driver runs in one thread: a call that has begun takes its next step as
\* soon as the link has answered, and every poll without result lets the
\* clock advance.
NextDeadline == NextJog \/ Call_goto \/ Goto \/ Call_move \/ Move \/ Otter

SpecDeadline ==
    /\ InitOf("deadline", "") \/ InitOf("deadline", "otter")
    /\ [][NextDeadline]_vars /\ WF_vars(NextDeadline)

\* length checks at the ends of the tolerance, on a driver made with the
\* steps per mm of the other sessions or with the default
NextTolerance == Connect \/ check_lengths_loop \/ Call_check_lengths

SpecTolerance ==
    /\ \E spm \in {StepsPerMm, DefaultStepsPerMm} : InitWith("tolerance", "", spm)
    /\ [][NextTolerance]_vars

---------------------------------------------------------------------------
(* The command server (mqtt_server.py).  It handles one message at a time  *)
(* in the thread of the MQTT client loop (line 1320).  Here sess holds the  *)
(* server's state: process, the handle in the global of that name, as the  *)
(* number of the worker it refers to (0 for the dummy process of line 1309  *)
(* that is never started); workers, the state of every worker process      *)
(* started so far; log, the warning the last call made the server publish; *)
(* action and payload, the last part of the topic and the kind of payload  *)
(* of the message the last call handled.  call.op is the function that was *)
(* called last, result is None when it returned and Exc when it raised,    *)
(* and now is the number of calls made.                                    *)

\* the calls a session of the server handles
MaxMessages == 5

\* lines 1281-1300: the actions that start a worker
ActionRequests ==
    {"run", "calibrate_eqe", "calibrate_psu", "calibrate_solarsim_diodes",
     "calibrate_spectrum", "calibrate_rtd", "home", "goto", "read_stage"}

\* lines 24-33, 1306: the attributes of the namespace get_args returns; the
\* one option, --mqtthost, is stored under the name mqtthost.  Reading
\* cli_args.MQTTHOST (lines 69, 83, 1282-1300, 1317) gives a value when the
\* namespace has an attribute of that name and raises AttributeError when
\* it has not
cli_args == {"mqtthost"}

InitServer ==
    /\ self = [steps_per_mm |-> StepsPerMm, extra |-> "",
               expected_lengths |-> UserLengths, homed |-> "None",
               keepout_zones |-> UserKeepout, axes |-> <<>>,
               current_position |-> <<>>, measured_lengths |-> <<>>,
               n_axes |-> 0]
    /\ stack = <<>>
    /\ retval = None
    /\ now = 0
    /\ hist = <<>>
    /\ call = NoCall
    /\ result = None
    /\ sess = [mode |-> "server", process |-> 0, workers |-> <<>>, log |-> "",
               action |-> "", payload |-> ""]

\* Process.is_alive(): the process was started and has not ended; a process
\* that was sent the termination signal is alive until it has ended
is_alive(p) == p # 0 /\ sess.workers[p] # "dead"

\* lines 52-69, from the server state s: the state the call leaves and
\* what it gives back.  The warning of the busy branch is published to the
\* host read from cli_args.MQTTHOST (line 69)
start_process(s) ==
    IF ~is_alive(s.process)
    THEN [sess |-> [s EXCEPT !.workers = Append(@, "running"),
                             !.process = Len(s.workers) + 1],
          result |-> None]
    ELSE IF "MQTTHOST" \in cli_args
         THEN [sess |-> [s EXCEPT !.log = "Measurement server busy!"],
               result |-> None]
         ELSE [sess |-> s, result |-> Exc]

\* lines 72-83: terminate() sends the signal and returns; the warning of
\* the idle branch is published to the host read from cli_args.MQTTHOST
\* (line 83)
stop_process(s) ==
    IF is_alive(s.process)
    THEN [sess |-> [s EXCEPT !.workers[s.process] = "terminating"],
          result |-> None]
    ELSE IF "MQTTHOST" \in cli_args
         THEN [sess |-> [s EXCEPT
                           !.log = "Nothing to stop. Measurement server is idle."],
               result |-> None]
         ELSE [sess |-> s, result |-> Exc]

\* on_message starting the worker of an action request itself, without the
\* call of start_process and its test of the running process
on_message_body_Direct(s) ==
    IF s.payload # "json" THEN [sess |-> s, result |-> Exc]
    ELSE IF s.action \in ActionRequests
         THEN [sess |-> [s EXCEPT !.workers = Append(@, "running"),
                                  !.process = Len(s.workers) + 1],
               result |-> None]
         ELSE IF s.action = "stop" THEN stop_process(s)
         ELSE [sess |-> s, result |-> None]

\* lines 1271-1300, for a message of topic measurement/<action>: the payload
\* is parsed first (line 1278); the arguments of start_process, the host
\* read from cli_args.MQTTHOST among them, are evaluated before it is
\* called (lines 1282-1300)
on_message_body(s) ==
    IF s.payload # "json" THEN [sess |-> s, result |-> Exc]
    ELSE IF s.action \in ActionRequests
         THEN IF "MQTTHOST" \in cli_args
              THEN start_process(s)
              ELSE [sess |-> s, result |-> Exc]
         ELSE IF s.action = "stop" THEN stop_process(s)
         ELSE [sess |-> s, result |-> None]

\* the client loop hands a message to on_message: the last part of its
\* topic is an action request, stop, or anything else published under
\* measurement/; its payload is a JSON document, or bytes that json.loads
\* (line 1278) does not parse
on_message ==
    /\ now < MaxMessages
    /\ \E action \in ActionRequests \cup {"stop", "status"},
          payload \in {"json", "text"} :
          LET out == on_message_body([sess EXCEPT !.log = "", !.action = action,
                                                  !.payload = payload])
          IN  /\ call' = [NoCall EXCEPT !.op = "on_message"]
              /\ sess' = out.sess
              /\ result' = out.result
    /\ now' = now + 1
    /\ UNCHANGED <<self, stack, retval, hist>>

\* start_process is called with a target and its arguments
Call_start_process ==
    /\ now < MaxMessages
    /\ LET out == start_process([sess EXCEPT !.log = "", !.action = "",
                                             !.payload = ""])
       IN  /\ call' = [NoCall EXCEPT !.op = "start_process"]
           /\ sess' = out.sess
           /\ result' = out.result
    /\ now' = now + 1
    /\ UNCHANGED <<self, stack, retval, hist>>

\* stop_process is called
Call_stop_process ==
    /\ now < MaxMessages
    /\ LET out == stop_process([sess EXCEPT !.log = "", !.action = "",
                                            !.payload = ""])
       IN  /\ call' = [NoCall EXCEPT !.op = "stop_process"]
           /\ sess' = out.sess
           /\ result' = out.result
    /\ now' = now + 1
    /\ UNCHANGED <<self, stack, retval, hist>>

\* a worker process ends: its target function returned (line 65), or the
\* signal of terminate() (line 77) ended it
worker_ends ==
    /\ \E p \in 1..Len(sess.workers) :
          /\ sess.workers[p] # "dead"
          /\ sess' = [sess EXCEPT !.workers[p] = "dead"]
    /\ UNCHANGED <<self, stack, retval, now, hist, call, result>>

\* the functions of the server, each called by itself as any importer of the
\* module may call them, and the end of a worker
NextServer == on_message \/ Call_start_process \/ Call_stop_process \/ worker_ends

SpecServer == InitServer /\ [][NextServer]_vars

\* the server as __main__ runs it: the client loop (line 1320) hands the
\* messages to on_message one after the other, and nothing else calls
\* start_process or stop_process
SpecMessages == InitServer /\ [][on_message]_vars

---------------------------------------------------------------------------
(* The properties of the driver.  They are stated over the call the        *)
(* orchestrator made (call), the value it got back (result) and the        *)
(* events of that call (hist).                                             *)

\* the call of method op has returned (or ended with an exception)
Finished(op) == Idle /\ call.op = op /\ result # None

\* the events of the running call that are commands of the given name
Events(name) == {k \in 1..Len(hist) : hist[k].e = "cmd" /\ hist[k].name = name}

NoMoveSent == Events("g") = {}

\* the axes and targets of the goto call, as lists
CallAxes ==
    IF IsList(call.axes) THEN call.axes.l
    ELSE IF call.axes.v = -1 THEN self.axes ELSE <<call.axes.v>>
CallPos == IF IsList(call.pos) THEN call.pos.l ELSE <<call.pos.v>>

\* round(mm * steps_per_mm) of the i-th target
StepTarget(i) == to_steps(PyFloat(CallPos[i]))

\* a length read of axis ax answered in this call with a positive number v
LengthRead(ax, v) ==
    \E k \in Events("l") : hist[k].ax = ax /\ hist[k].val = Num(v) /\ v > 0

\* the last length read of the call was answered with a positive number
LastLengthKnown ==
    /\ Events("l") # {}
    /\ LET k == CHOOSE m \in Events("l") : \A n \in Events("l") : n <= m
       IN  IsNum(hist[k].val) /\ hist[k].val.v > 0

\* the i-th target of the call is below the end buffer, beyond the far end
\* buffer of the length the axis reported, or in the axis's keepout interval
OutOfBounds(i) ==
    LET ax == CallAxes[i]
        np == StepTarget(i)
        ebs == end_buffers * StepsPerMm
        koz == IF ax \in 1..Len(UserKeepout) THEN UserKeepout[ax] ELSE <<>>
    IN  \/ np < ebs
        \/ \E v \in {hist[k].val.v : k \in Events("l")} :
             LengthRead(ax, v) /\ np > v - ebs
        \/ /\ koz # <<>>
           /\ np >= SeqMin(koz) * StepsPerMm
           /\ np <= SeqMax(koz) * StepsPerMm

\* the goto call pairs every target with an axis and some target is out of
\* bounds
BoundsViolation ==
    /\ Len(CallPos) = Len(CallAxes)
    /\ \E i \in 1..Len(CallAxes) : OutOfBounds(i)

\* every axis of the goto call is an axis of the stage whose place on the
\* stage has an entry in keepout_zones: the lookup of line 425 does not raise
StageAxes ==
    \A i \in 1..Len(CallAxes) :
       IndexOf(self.axes, CallAxes[i]) \in 1..Len(self.keepout_zones)

\* C1 as stated, for a goto over axes of the stage that have a keepout_zones
\* entry: a goto with a target out
\* of bounds returns -6 and sends no move command for any axis.
C1_Claim ==
    (Finished("goto") /\ StageAxes /\ BoundsViolation) =>
        (result = Num(-6) /\ NoMoveSent)

\* C1, amended: a goto with a target out of bounds sends no move command for
\* any axis; it returns -6 when the last length it read was a positive number
\* and every axis of the call is an axis of the stage with a keepout_zones
\* entry, and -2 when the last length it read (of the violating axis or of one
\* before it) was absent or not positive.
C1_Theorem ==
    (Finished("goto") /\ BoundsViolation) =>
        /\ NoMoveSent
        /\ (LastLengthKnown /\ StageAxes) => result = Num(-6)
        /\ ~LastLengthKnown => result = Num(-2)

\* a whole-stage goto whose first axis validated and whose second target is
\* out of bounds was turned down with -6
C1_Witness ==
    /\ Finished("goto") /\ Len(CallAxes) = 2 /\ Len(CallPos) = 2
    /\ ~OutOfBounds(1) /\ OutOfBounds(2)
    /\ LengthRead(CallAxes[1], UserLengths[1].v * StepsPerMm)
    /\ result = Num(-6) /\ NoMoveSent

---------------------------------------------------------------------------
(* Composite homing                                                        *)

\* event k is the command name of axis ax
Cmd(k, name, ax) ==
    hist[k].e = "cmd" /\ hist[k].name = name /\ hist[k].ax = ax

\* event k is the return of method name, called for axis ax (0 for goto) by
\* otter_home itself: home, otter_home and the step are on the stack
StepRet(k, name, ax) ==
    /\ hist[k].e = "ret" /\ hist[k].name = name /\ hist[k].ax = ax
    /\ hist[k].arg = 3

\* event k is a motion command: home, jog or goto
Motion(k) == hist[k].e = "cmd" /\ hist[k].name \in {"h", "j", "g"}

\* C2: in composite homing, home(axis=2) is sent only after, in this order,
\* jog(2,'b') was sent, home(1) was sent and returned a list,
\* check_lengths(1) returned 0, the goto of axis 1 was sent and returned 0;
\* home(1) is sent only after jog(2,'b') and the goto only after home(1).
C2_Theorem ==
    \A k \in 1..Len(hist) :
      /\ Cmd(k, "h", 2) =>
           \E f \in 1..(k - 1) :
             /\ StepRet(f, "goto", 0) /\ hist[f].val = Num(0)
             /\ \E e \in 1..(f - 1) :
                  /\ Cmd(e, "g", 1)
                  /\ \E d \in 1..(e - 1) :
                       /\ StepRet(d, "check_lengths", 1) /\ hist[d].val = Num(0)
                       /\ \E c \in 1..(d - 1) :
                            /\ StepRet(c, "home", 1) /\ IsList(hist[c].val)
                            /\ \E b \in 1..(c - 1) :
                                 /\ Cmd(b, "h", 1)
                                 /\ \E a \in 1..(b - 1) :
                                      Cmd(a, "j", 2) /\ hist[a].s = "b"
      /\ Cmd(k, "g", 1) => \E b \in 1..(k - 1) : Cmd(b, "h", 1)
      /\ Cmd(k, "h", 1) => \E a \in 1..(k - 1) : Cmd(a, "j", 2) /\ hist[a].s = "b"

\* composite homing sent home(axis=2) and returned the stage's dimensions
C2_Witness ==
    /\ Finished("home") /\ IsList(result) /\ Len(result.l) = 2
    /\ \E k \in 1..Len(hist) : Cmd(k, "h", 2)

\* event k is the return of a step of composite homing with a value other
\* than the step's success value (0 for jog and goto, a list for home)
StepFailed(k) ==
    \/ StepRet(k, "jog", 2) /\ hist[k].val # Num(0)
    \/ StepRet(k, "home", 1) /\ ~IsList(hist[k].val)
    \/ StepRet(k, "goto", 0) /\ hist[k].val # Num(0)
    \/ StepRet(k, "home", 2) /\ ~IsList(hist[k].val)

\* C3: in composite homing, once a step (jog of axis 2, home of axis 1, goto
\* of axis 1, home of axis 2) has returned a failure, no home, jog or goto
\* command is sent any more and the procedure returns that step's value.
C3_Theorem ==
    \A k \in 1..Len(hist) :
      StepFailed(k) =>
        /\ \A m \in 1..Len(hist) : m > k => ~Motion(m)
        /\ Finished("home") => result = hist[k].val

\* the goto of axis 1 failed after axis 1 was homed, and composite homing
\* returned the goto's error code without sending home(axis=2)
C3_Witness ==
    /\ Finished("home")
    /\ \E k \in 1..Len(hist) :
         /\ StepRet(k, "goto", 0) /\ IsNum(hist[k].val) /\ hist[k].val.v < 0
         /\ result = hist[k].val
    /\ \E b \in 1..Len(hist) : Cmd(b, "h", 1)
    /\ ~\E m \in 1..Len(hist) : Cmd(m, "h", 2)

---------------------------------------------------------------------------
(* goto: move commands, the blocking wait and the homed flag               *)

\* some move command of the call was answered with a non-empty response
MoveRejected == \E k \in Events("g") : hist[k].val # Str(0)

\* C4: whenever the response to a move command of a goto is non-empty, the
\* goto returns -2, blocking or not.
C4_Claim ==
    (Finished("goto") /\ MoveRejected) => result = Num(-2)

\* a blocking goto whose move command was rejected returned 0
C4_Rejected_Returns_0 ==
    Finished("goto") /\ call.block /\ MoveRejected /\ result = Num(0)

\* the i-th axis of the call was seen stopped at its target: two consecutive
\* position reads of the axis answered with the axis's step target
ObservedAtTarget(i) ==
    \E k \in 1..(Len(hist) - 1) :
      /\ Cmd(k, "r", CallAxes[i]) /\ Cmd(k + 1, "r", CallAxes[i])
      /\ hist[k].val = Num(StepTarget(i))
      /\ hist[k + 1].val = Num(StepTarget(i))

AllObservedAtTarget ==
    /\ Len(CallPos) = Len(CallAxes)
    /\ \A i \in 1..Len(CallAxes) : ObservedAtTarget(i)

\* C5: a blocking goto returns 0 only if every targeted axis was seen
\* stopped at its step target (two consecutive equal position reads, equal
\* to the target) before the time budget of the call was used up.
C5_Theorem ==
    (Finished("goto") /\ call.block /\ result = Num(0)) =>
        (AllObservedAtTarget /\ now < call.timeout)

\* a blocking goto of both axes returned 0
C5_Witness ==
    /\ Finished("goto") /\ call.block /\ result = Num(0)
    /\ Len(CallAxes) = 2 /\ Cardinality(Events("r")) = 4

\* the goto call assigned True to homed
GotoSetHomed == \E k \in 1..Len(hist) : hist[k] = HomedEv("goto", "True")

\* every axis of the call got one move command and every one was acknowledged
AllAcknowledged ==
    /\ Cardinality(Events("g")) = Len(CallAxes)
    /\ ~MoveRejected

\* C6 as stated: goto sets homed to True only when every targeted axis has
\* been observed stopped at its step target and the call returns 0.
C6_Claim ==
    (Finished("goto") /\ GotoSetHomed) =>
        (result = Num(0) /\ AllObservedAtTarget)

\* C6, amended: goto sets homed to True only when it returns 0 and targets
\* as many axes as the stage has; a blocking goto has then seen every
\* targeted axis stopped at its step target, a non-blocking goto has had
\* every move command acknowledged and has observed nothing.
C6_Theorem ==
    (Finished("goto") /\ GotoSetHomed) =>
        /\ result = Num(0)
        /\ Len(CallAxes) = self.n_axes
        /\ call.block => AllObservedAtTarget
        /\ ~call.block => (AllAcknowledged /\ Events("r") = {})

\* a blocking goto of the whole stage saw both axes stopped at their targets
\* and set homed to True
C6_Witness ==
    /\ Finished("goto") /\ GotoSetHomed /\ call.block
    /\ AllObservedAtTarget /\ self.homed = "True"

---------------------------------------------------------------------------
(* The homed flag                                                          *)

\* the goto call targets as many axes as the stage has
WholeStageGoto == call.op = "goto" /\ Len(CallAxes) = self.n_axes

\* the home call is a blocking home of the whole stage that returned a list
WholeStageHomeList ==
    Finished("home") /\ call.axis = -1 /\ call.block /\ IsList(result)

\* the list the call returned holds a measured (positive) length per axis
MeasuredLengths ==
    Len(result.l) = self.n_axes /\ \A i \in 1..Len(result.l) : result.l[i] > 0

\* the full-stage length check that ends the wait of the call returned 0
FullCheckPassed ==
    \E k \in 1..Len(hist) :
      /\ hist[k].e = "ret" /\ hist[k].name = "check_lengths"
      /\ hist[k].ax = -1 /\ hist[k].val = Num(0)

\* C7 as stated: after a whole-stage goto returns 0, or a whole-stage
\* blocking home returns a list of measured lengths, homed is True.
C7_Claim ==
    /\ (Finished("goto") /\ WholeStageGoto /\ result = Num(0)) => self.homed = "True"
    /\ (WholeStageHomeList /\ MeasuredLengths) => self.homed = "True"

\* the call ran a length check of the whole stage
FullCheckRan ==
    \E k \in 1..Len(hist) :
      hist[k].e = "ret" /\ hist[k].name = "check_lengths" /\ hist[k].ax = -1

\* the assignments to homed the call made
HomedAssigned == {k \in 1..Len(hist) : hist[k].e = "homed"}

\* C7, amended: after a whole-stage goto returns 0 homed is True; after a
\* whole-stage blocking home returns a list, homed is True when the call
\* ended with a full-stage length check that returned 0 and False when that
\* check returned anything else; the one home that returns a list without a
\* full-stage check is the composite homing that hands back the list of its
\* jog of axis 2, and it leaves homed as it was before the call, or False
\* when the jog's check of axis 2 could not read the length.
C7_Theorem ==
    /\ (Finished("goto") /\ WholeStageGoto /\ result = Num(0)) => self.homed = "True"
    /\ WholeStageHomeList =>
         IF FullCheckRan
         THEN self.homed = (IF FullCheckPassed THEN "True" ELSE "False")
         ELSE /\ self.extra = "otter" /\ Events("h") = {}
              /\ \E k \in 1..Len(hist) : StepRet(k, "jog", 2) /\ hist[k].val = result
              /\ \A k \in HomedAssigned : hist[k] = HomedEv("check_lengths", "False")
              /\ HomedAssigned # {} => self.homed = "False"

\* a whole-stage blocking home returned both lengths, its final length check
\* passed and homed is True
C7_Witness ==
    /\ WholeStageHomeList /\ MeasuredLengths
    /\ FullCheckPassed /\ self.homed = "True"

\* the last event of the call is the return of a check_lengths with a
\* failure code
CheckFailed ==
    /\ hist # <<>>
    /\ hist[Len(hist)].e = "ret" /\ hist[Len(hist)].name = "check_lengths"
    /\ hist[Len(hist)].val \in {Num(-1), Num(-2)}

\* C8 as stated: after any check_lengths that returns -1 or -2, for all axes
\* or for a single axis, homed is False.
C8_Claim == CheckFailed => self.homed = "False"

\* C8, amended: after a check_lengths over all axes that returns -1 or -2,
\* and after a check_lengths of a single axis that returns -2, homed is
\* False (a single-axis check that returns -1 leaves homed as it was).
C8_Theorem ==
    (CheckFailed /\ (hist[Len(hist)].ax = -1 \/ hist[Len(hist)].val = Num(-2)))
        => self.homed = "False"

\* a check of all axes found a length out of tolerance and homed is False
C8_Witness ==
    /\ Finished("check_lengths") /\ call.axis = -1 /\ result = Num(-1)
    /\ CheckFailed /\ self.homed = "False"

\* a check_lengths of a single axis is running
SingleAxisCheck ==
    stack # <<>> /\ Top.fn = "check_lengths" /\ Top.axis # -1

\* C9 as stated: no step of a check_lengths of a single axis changes homed.
C9_Claim == [][SingleAxisCheck => self'.homed = self.homed]_vars

\* C9, amended: a check_lengths of a single axis leaves homed as it was when
\* it returns 0, -1 or -3, and sets homed to False when it returns -2; it
\* never sets homed to True.
C9_Theorem ==
    [][SingleAxisCheck =>
          self'.homed = (IF stack' = Pop /\ retval' = Num(-2)
                         THEN "False" ELSE self.homed)]_vars

\* a check of axis 1 alone passed on a stage that is not homed, and homed is
\* still False
C9_Witness ==
    /\ Finished("check_lengths") /\ call.axis = 1 /\ result = Num(0)
    /\ self.homed = "False"

\* C10 as stated: homed is True only if a check_lengths over all axes has
\* returned 0 earlier in the session.
C10_Claim == self.homed = "True" => sess.full_check_ok

\* C10, amended: homed is True only if, earlier in the session, a
\* check_lengths over all axes returned 0 or a goto that targets as many axes
\* as the stage has returned 0.
C10_Theorem ==
    self.homed = "True" => (sess.full_check_ok \/ sess.goto_all_ok)

\* the first check of all axes that passed in the session has just set homed
\* to True
C10_Witness ==
    /\ Finished("check_lengths") /\ call.axis = -1 /\ result = Num(0)
    /\ self.homed = "True" /\ sess.full_check_ok /\ ~sess.goto_all_ok

---------------------------------------------------------------------------
(* estop                                                                   *)

\* the estop call stops its axes one by one
PerAxisEstop == Finished("estop") /\ Len(CallAxes) # self.n_axes

\* some stop command of the call was answered with a non-empty response
StopRejected == \E k \in Events("b") : hist[k].val # Str(0)

\* C11: an estop that stops its axes one by one returns -2 if and only if
\* some stop command was answered with a non-empty response, in whatever
\* order the axes are given; with every stop acknowledged it returns 0.
C11_Theorem ==
    PerAxisEstop =>
        /\ result = Num(-2) <=> StopRejected
        /\ (~StopRejected /\ CallAxes # <<>>) => result = Num(0)
        /\ Cardinality(Events("b")) = Len(CallAxes)

\* of two axes out of three the first one's stop was rejected, the second
\* one's was acknowledged, and the estop returned -2
C11_Witness ==
    /\ PerAxisEstop /\ Len(CallAxes) = 2 /\ Len(hist) = 3
    /\ hist[1].val # Str(0) /\ hist[2].val = Str(0)
    /\ result = Num(-2)

---------------------------------------------------------------------------
(* wait_for_home_or_jog                                                    *)

\* the axes the wait was asked for
WaitAxes == IF call.axis = -1 THEN self.axes ELSE <<call.axis>>

\* event k is a poll of wait_for_home_or_jog answered with a non-negative
\* length: the position of the axis is read right after it (lines 268-274)
Reported(k, ax) ==
    /\ Cmd(k, "l", ax) /\ IsNum(hist[k].val) /\ hist[k].val.v >= 0
    /\ k < Len(hist) /\ Cmd(k + 1, "r", ax)

\* the lengths the requested axes reported, in axis order
ReportedLengths(axs) ==
    [i \in 1..Len(axs) |->
        hist[CHOOSE k \in 1..Len(hist) : Reported(k, axs[i])].val.v]

AllReported(axs) ==
    \A i \in 1..Len(axs) : \E k \in 1..Len(hist) : Reported(k, axs[i])

\* C12 as stated, for axes of the stage: wait_for_home_or_jog returns -1
\* when some requested axis has not reported a non-negative length within
\* the timeout, and otherwise the list of the lengths the axes reported.
C12_Claim ==
    (Finished("wait_for_home_or_jog") /\ call.axis \in {-1, 1, 2}) =>
        IF AllReported(WaitAxes)
        THEN result = List(ReportedLengths(WaitAxes))
        ELSE result = Num(-1)

\* every requested axis reported its length, the position read after the
\* last report was answered None, and the wait ended in an exception
C12_Raised ==
    /\ Finished("wait_for_home_or_jog") /\ AllReported(WaitAxes)
    /\ hist[Len(hist)].val = None
    /\ result = Exc

---------------------------------------------------------------------------
(* move                                                                    *)

\* a move whose offsets match its axes
MoveCall == Finished("move") /\ Len(CallPos) = Len(CallAxes)

\* event k is the position read move made of its k-th axis
MoveRead(k) == k <= Len(CallAxes) /\ k <= Len(hist) /\ Cmd(k, "r", CallAxes[k])

\* C13: when the position read of a targeted axis is answered None or with
\* a number that is not positive, move returns -2, reads no length, sends
\* no move command and never enters goto.
C13_Theorem ==
    (MoveCall /\ \E k \in 1..Len(CallAxes) :
                    MoveRead(k) /\ (hist[k].val = None \/ hist[k].val.v <= 0)) =>
        /\ result = Num(-2)
        /\ Events("l") = {} /\ Events("g") = {}
        /\ \A k \in 1..Len(hist) : ~(hist[k].e = "ret" /\ hist[k].name = "goto")

\* a move of the whole stage read the position of axis 1, was answered 0
\* for axis 2, and returned -2
C13_Witness ==
    /\ MoveCall /\ Len(CallAxes) = 2 /\ MoveRead(2)
    /\ IsNum(hist[1].val) /\ hist[1].val.v > 0
    /\ hist[2].val = Num(0)
    /\ result = Num(-2)

\* the position move read of the axis of move command k, and its offset
ReadOf(k) == hist[IndexOf(CallAxes, hist[k].ax)].val.v
OffsetOf(k) == CallPos[IndexOf(CallAxes, hist[k].ax)]

\* the running move is the way back of the move before it: same axis,
\* opposite offset, and the axis stands where that move sent it
WayBack ==
    /\ Finished("move") /\ sess.prev.ok /\ Events("g") # {}
    /\ CallAxes = sess.prev.axes
    /\ CallPos = <<-sess.prev.mm[1]>>
    /\ hist[1].val = Num(sess.prev.to[1])

\* C14 as stated: every move command of a move carries the position read,
\* in steps, plus round(offset * steps_per_mm); and the way back of a
\* successful move commands the position that move started from.
C14_Claim ==
    /\ Finished("move") =>
          \A k \in Events("g") :
             hist[k].arg = ReadOf(k) + to_steps(PyFloat(OffsetOf(k)))
    /\ WayBack => \A k \in Events("g") : hist[k].arg = sess.prev.from[1]

Abs(n) == IF n < 0 THEN -n ELSE n

\* C14, amended: every move command of a move carries
\* round((position / steps_per_mm + offset) * steps_per_mm) as the floats
\* give it: a whole number of steps nearest to position + offset *
\* steps_per_mm (at an exact half step, either neighbour).  For an offset
\* of a whole number of steps that is the position read plus the offset in
\* steps, and the way back of a successful move commands the position that
\* move started from.
C14_Theorem ==
    /\ Finished("move") =>
          \A k \in Events("g") :
             /\ 2 * Abs(hist[k].arg * MmDen - (ReadOf(k) * MmDen + OffsetOf(k)))
                   <= MmDen
             /\ OffsetOf(k) % MmDen = 0 =>
                   hist[k].arg = ReadOf(k) + OffsetOf(k) \div MmDen
    /\ (WayBack /\ CallPos[1] % MmDen = 0) =>
          \A k \in Events("g") : hist[k].arg = sess.prev.from[1]

\* a move of axis 1 by 20 mm from 100 mm was sent to 120 mm and returned 0;
\* the move back by -20 mm read 120 mm, was sent to 100 mm and returned 0
C14_Witness ==
    /\ WayBack /\ result = Num(0)
    /\ sess.prev.mm = <<Offset20>>
    /\ sess.prev.from = <<100 * StepsPerMm>> /\ sess.prev.to = <<120 * StepsPerMm>>
    /\ \E k \in Events("g") : hist[k].arg = 100 * StepsPerMm

---------------------------------------------------------------------------
(* exceptions                                                              *)

\* C15 as stated: on a connected driver no call of a motion method ends in
\* an uncaught exception, whatever the link answers.
C15_Claim == (Idle /\ sess.connected) => result # Exc

\* a wait for the whole stage ended in an exception
C15_Raised ==
    Finished("wait_for_home_or_jog") /\ call.axis = -1 /\ result = Exc

---------------------------------------------------------------------------
(* connect                                                                 *)

\* some call on the link raised an exception in the running call
LinkRaised == \E k \in 1..Len(hist) : hist[k].e = "cmd" /\ hist[k].val = Exc

\* the link answered the running connect, and with a number of axes that is
\* the number of lengths the caller supplied
Discovered ==
    Finished("connect") /\ ~LinkRaised /\ Cmd(1, "e", 0) /\ IsNum(hist[1].val)
AxisCountMatches == Len(AxesOf(hist[1].val.v, 0)) = Len(UserLengths)

\* the full-stage length check of the running connect returned 0
CheckReturned0 ==
    \E k \in 1..Len(hist) :
       hist[k].e = "ret" /\ hist[k].name = "check_lengths" /\ hist[k].val = Num(0)

\* C16 as stated: a connect that finds a number of axes other than the
\* number of expected lengths returns 0 all the same.
C16_Claim ==
    (Discovered /\ sess.connects = 1 /\ ~AxisCountMatches) => result = Num(0)

\* the first connect found one axis for two expected lengths and returned -1
C16_Mismatch ==
    /\ Discovered /\ sess.connects = 1 /\ hist[1].val = Num(1)
    /\ result = Num(-1)

\* C17 as stated: a connect whose link calls all answered and whose axis
\* count matches returns 0 whatever the length check gave, and homed is
\* True exactly when the check returned 0; a connect one of whose link calls
\* raised returns -1.
C17_Claim ==
    /\ (Discovered /\ AxisCountMatches) =>
          (result = Num(0) /\ (self.homed = "True" <=> CheckReturned0))
    /\ (Finished("connect") /\ LinkRaised) => result = Num(-1)

\* the second connect was answered on every link call, found as many axes
\* as the caller gave lengths, and returned -1: the connect before it had
\* left an expected length unset
C17_Reconnect_Fails ==
    /\ Discovered /\ AxisCountMatches /\ sess.connects = 2
    /\ Len(self.expected_lengths) = Len(UserLengths)
    /\ result = Num(-1)

\* C18 as stated: after every connect that returns 0 the expected lengths
\* are the lengths the caller supplied, in steps.
C18_Claim ==
    (Finished("connect") /\ result = Num(0)) =>
        \A i \in 1..Len(UserLengths) :
           self.expected_lengths[i] = Num(UserLengths[i].v * self.steps_per_mm)

\* the second connect returned 0 and left the expected length of axis 1
\* multiplied by steps_per_mm twice
C18_Multiplied ==
    /\ Finished("connect") /\ result = Num(0) /\ sess.connects = 2
    /\ self.expected_lengths[1] =
          Num(UserLengths[1].v * self.steps_per_mm * self.steps_per_mm)

---------------------------------------------------------------------------
(* the tolerance of check_lengths                                          *)

\* the running call checked the length of axis 1 alone and the link
\* answered with a positive number of steps
Measured == Finished("check_lengths") /\ call.axis = 1 /\ hist[1].val.v > 0

\* the expected length of axis 1 and the tolerance, in steps
Expected == UserLengths[1].v * self.steps_per_mm
Tolerance == allowed_length_deviation * self.steps_per_mm

\* C19 as stated: a measured length validates (0) exactly when it lies in
\* the closed interval [expected - tolerance, expected + tolerance], and
\* gives -1 outside it.
C19_Claim ==
    Measured =>
        IF /\ hist[1].val.v >= Expected - Tolerance
           /\ hist[1].val.v <= Expected + Tolerance
        THEN result = Num(0)
        ELSE result = Num(-1)

\* the measured length was expected + tolerance and the check returned -1
C19_Endpoint ==
    Measured /\ hist[1].val.v = Expected + Tolerance /\ result = Num(-1)

\* the driver has 6400 steps per mm and axis 1 is expected to be 750 mm
Default750 == self.steps_per_mm = 6400 /\ UserLengths[1].v = 750

\* C20 as stated: with 6400 steps per mm, 750 mm expected and 5 mm allowed,
\* a measured length of 756 mm checks out (0).
C20_Claim ==
    (Measured /\ Default750 /\ hist[1].val.v = 756 * 6400) => result = Num(0)

\* C20, amended: with 6400 steps per mm, 750 mm expected and 5 mm allowed,
\* a measured length of 756 mm does not check out (-1); 754 mm does (0).
C20_Theorem ==
    /\ (Measured /\ Default750 /\ hist[1].val.v = 756 * 6400) => result = Num(-1)
    /\ (Measured /\ Default750 /\ hist[1].val.v = 754 * 6400) => result = Num(0)

\* at 6400 steps per mm the link reported 756 mm and the check returned -1
C20_Witness ==
    /\ Measured /\ Default750 /\ hist[1].val.v = 756 * 6400
    /\ self.expected_lengths[1] = Num(750 * 6400)
    /\ result = Num(-1)

---------------------------------------------------------------------------
(* check_lengths, axis by axis                                             *)

\* the code check_lengths gives a length read: 0 within tolerance of the
\* expected length of axis number i, -1 out of it, -2 absent or not positive
LengthCode(i, m) ==
    IF ~IsNum(m) \/ m.v <= 0 THEN -2
    ELSE IF /\ m.v < self.expected_lengths[i].v + allowed_length_deviation * self.steps_per_mm
            /\ m.v > self.expected_lengths[i].v - allowed_length_deviation * self.steps_per_mm
         THEN 0 ELSE -1

\* a finished check of the whole stage, and the number of its length reads,
\* which are its first events
FullCheck == Finished("check_lengths") /\ call.axis = -1
ChecksMade == Cardinality(Events("l"))

\* C21: a check of the whole stage reads the axes in order and stops at the
\* first one whose length is absent, not positive (-2) or out of tolerance
\* (-1): no later axis is read and the call returns that code; it returns 0
\* when every axis was read and checked out.  Every length read, the failing
\* one included, is the measured length of its axis afterwards.
C21_Theorem ==
    FullCheck =>
        /\ ChecksMade \in 1..self.n_axes
        /\ \A k \in 1..ChecksMade :
              /\ Cmd(k, "l", self.axes[k])
              /\ self.measured_lengths[k] = hist[k].val
              /\ k < ChecksMade => LengthCode(k, hist[k].val) = 0
        /\ result = Num(LengthCode(ChecksMade, hist[ChecksMade].val))
        /\ result = Num(0) => ChecksMade = self.n_axes

\* the check of the whole stage read no answer for axis 1, returned -2
\* without reading axis 2, and the measured length of axis 1 is None
C21_Witness ==
    /\ FullCheck /\ ChecksMade = 1 /\ self.n_axes = 2
    /\ hist[1].val = None /\ self.measured_lengths[1] = None
    /\ result = Num(-2)

---------------------------------------------------------------------------
(* home, jog and wait_for_home_or_jog, called by themselves                *)

\* a finished home, jog or wait on a stage that is not the otter stage
DirectCall ==
    /\ self.extra = ""
    /\ \/ Finished("home") \/ Finished("jog") \/ Finished("wait_for_home_or_jog")

\* no command of the running call went to the link
NothingSent == \A k \in 1..Len(hist) : hist[k].e # "cmd"

\* C22: home, jog and wait_for_home_or_jog called for an axis the stage does
\* not have return -3 and send nothing to the link.
C22_Theorem ==
    (DirectCall /\ call.axis # -1 /\ IndexOf(self.axes, call.axis) = 0) =>
        (result = Num(-3) /\ NothingSent)

\* a blocking jog of axis 3 on the stage of axes 1 and 2 returned -3
C22_Witness ==
    /\ Finished("jog") /\ call.axis = 3 /\ call.block /\ self.axes = <<1, 2>>
    /\ result = Num(-3) /\ NothingSent

---------------------------------------------------------------------------
(* composite homing: the length of axis 1, and the calls it refuses        *)

\* a finished home on the otter stage
OtterHome == Finished("home") /\ self.extra = "otter"

\* C23: when, in composite homing, the check of the length of axis 1 that
\* follows the homing of axis 1 returns a code other than 0, the procedure
\* returns -5 and sends neither a move command nor the home command of
\* axis 2.
C23_Theorem ==
    (OtterHome /\ \E k \in 1..Len(hist) :
                     StepRet(k, "check_lengths", 1) /\ hist[k].val # Num(0)) =>
        /\ result = Num(-5)
        /\ Events("g") = {}
        /\ \A k \in 1..Len(hist) : ~Cmd(k, "h", 2)

\* axis 1 was homed and reported a length, its check returned -1, and the
\* composite homing returned -5
C23_Witness ==
    /\ OtterHome /\ result = Num(-5)
    /\ \E j, k \in 1..Len(hist) :
          /\ j < k
          /\ StepRet(j, "home", 1) /\ IsList(hist[j].val)
          /\ StepRet(k, "check_lengths", 1) /\ hist[k].val = Num(-1)

\* C24: on the otter stage a home that is not blocking, or that is for one
\* axis, returns -4 and sends nothing to the link.
C24_Theorem ==
    (OtterHome /\ (~call.block \/ call.axis # -1)) =>
        (result = Num(-4) /\ NothingSent)

\* a blocking home of axis 1 alone on the otter stage returned -4
C24_Witness ==
    /\ OtterHome /\ call.block /\ call.axis = 1
    /\ result = Num(-4) /\ NothingSent

---------------------------------------------------------------------------
(* goto: stalls, and lengths that cannot be read                           *)

\* the i-th axis of the call was seen stopped: two consecutive position
\* reads of the axis answered with the same number
ObservedStopped(i) ==
    \E k \in 1..(Len(hist) - 1) :
      /\ Cmd(k, "r", CallAxes[i]) /\ Cmd(k + 1, "r", CallAxes[i])
      /\ IsNum(hist[k].val) /\ hist[k + 1].val = hist[k].val

\* the i-th axis of the call was seen stopped away from its step target
ObservedStalled(i) ==
    \E k \in 1..(Len(hist) - 1) :
      /\ Cmd(k, "r", CallAxes[i]) /\ Cmd(k + 1, "r", CallAxes[i])
      /\ IsNum(hist[k].val) /\ hist[k + 1].val = hist[k].val
      /\ hist[k].val # Num(StepTarget(i))

\* a finished blocking goto every axis of which was seen stopped
AllStopped ==
    /\ Finished("goto") /\ call.block /\ Len(CallPos) = Len(CallAxes)
    /\ \A i \in 1..Len(CallAxes) : ObservedStopped(i)

\* C25: a blocking goto in which every axis was seen stopped before the
\* timeout, one of them away from its step target, returns -8, also when
\* the axes waited for after that one stopped at their targets.
C25_Theorem ==
    (AllStopped /\ \E i \in 1..Len(CallAxes) : ObservedStalled(i)) =>
        result = Num(-8)

\* axis 1 was seen stopped away from its target, axis 2 after it at its
\* target, and the goto returned -8
C25_Witness ==
    /\ AllStopped /\ Len(CallAxes) = 2
    /\ ObservedStalled(1) /\ ObservedAtTarget(2)
    /\ result = Num(-8)

\* a length read of the running goto was answered None or with a number
\* that is not positive
LengthUnknown ==
    \E k \in Events("l") : hist[k].val = None \/ hist[k].val.v <= 0

\* C26: a goto one of whose length reads is answered None or with a number
\* that is not positive returns -2, leaves homed False and sends no move
\* command.
C26_Theorem ==
    (Finished("goto") /\ LengthUnknown) =>
        (result = Num(-2) /\ self.homed = "False" /\ NoMoveSent)

\* a goto of the whole stage read a length for axis 1 and 0 for axis 2,
\* returned -2 and left homed False
C26_Witness ==
    /\ Finished("goto") /\ Len(CallAxes) = 2 /\ Cardinality(Events("l")) = 2
    /\ LengthRead(1, UserLengths[1].v * self.steps_per_mm)
    /\ \E k \in Events("l") : hist[k].ax = 2 /\ hist[k].val = Num(0)
    /\ result = Num(-2) /\ self.homed = "False" /\ NoMoveSent

---------------------------------------------------------------------------
(* home and jog: the answer to the command                                 *)

\* a finished home or jog, not on the otter stage, that sent its command
Commanded ==
    /\ self.extra = "" /\ (Finished("home") \/ Finished("jog"))
    /\ hist # <<>> /\ (Cmd(1, "h", call.axis) \/ Cmd(1, "j", call.axis))

\* no length and no position was read in the running call
NoPolling == Events("l") = {} /\ Events("r") = {}

\* C27: a home or jog whose command the link answers with a non-empty
\* response returns -2 without reading any length or position; one that is
\* not blocking and whose command is acknowledged returns 0 without reading
\* any either.
C27_Theorem ==
    /\ (Commanded /\ hist[1].val # Str(0)) => (result = Num(-2) /\ NoPolling)
    /\ (Commanded /\ hist[1].val = Str(0) /\ ~call.block) =>
          (result = Num(0) /\ NoPolling)

\* a blocking home of the whole stage was answered with a non-empty response
\* and returned -2 after that one command
C27_Witness ==
    /\ Commanded /\ call.op = "home" /\ call.axis = -1 /\ call.block
    /\ hist[1].val # Str(0)
    /\ result = Num(-2) /\ Len(hist) = 2

---------------------------------------------------------------------------
(* what jog returns                                                        *)

\* C30 as stated: a jog that returns, returns 0 or a negative code.
C30_Claim ==
    (Finished("jog") /\ result # Exc) => (IsNum(result) /\ result.v <= 0)

\* a blocking jog of axis 2 was acknowledged, the axis reported its length
\* before the timeout, and the jog returned the list of that length
C30_List ==
    /\ Finished("jog") /\ call.block /\ call.axis = 2
    /\ hist[1].val = Str(0)
    /\ Reported(2, 2) /\ hist[2].val.v > 0
    /\ result = List(<<hist[2].val.v>>)

---------------------------------------------------------------------------
(* the check that ends a wait for the whole stage                          *)

\* a finished wait for the whole stage
WholeStageWait == Finished("wait_for_home_or_jog") /\ call.axis = -1

\* the last length read of the call, and the number of its axis
LastLengthRead == CHOOSE k \in Events("l") : \A j \in Events("l") : j <= k
LastAxisRead == IndexOf(self.axes, hist[LastLengthRead].ax)

\* the events from the first one on are the reads of a full-stage check that
\* stopped at axis number n with code c, what it did to homed, and its return
CheckRanFrom(first, n, c) ==
    /\ \A i \in 1..n :
          /\ Cmd(first + i - 1, "l", self.axes[i])
          /\ self.measured_lengths[i] = hist[first + i - 1].val
          /\ LengthCode(i, hist[first + i - 1].val) = (IF i < n THEN 0 ELSE c)
    /\ c = 0 => n = self.n_axes
    /\ \A k \in (first + n)..(Len(hist) - 2) : hist[k].e = "homed"
    /\ LET r == hist[Len(hist) - 1]
       IN  r.e = "ret" /\ r.name = "check_lengths" /\ r.ax = -1 /\ r.val = Num(c)
    /\ self.homed = "True" <=> c = 0

\* C28: when wait_for_home_or_jog for the whole stage returns, with the
\* lengths or with -1 on timeout, the last thing it did was a full-stage
\* length check, after all polling, and homed is True exactly when that check
\* read a good length (present, positive, within tolerance) for every axis.
C28_Theorem ==
    (WholeStageWait /\ result # Exc) =>
        /\ Events("l") # {}
        /\ LastAxisRead >= 1 /\ LastLengthRead >= LastAxisRead
        /\ \E c \in {0, -1, -2} :
              CheckRanFrom(LastLengthRead - LastAxisRead + 1, LastAxisRead, c)

\* the wait for the whole stage timed out and the check that followed read
\* good lengths for both axes: homed is True and the call returned -1
C28_Witness ==
    /\ WholeStageWait /\ result = Num(-1) /\ self.homed = "True"
    /\ CheckRanFrom(LastLengthRead - 1, 2, 0)

---------------------------------------------------------------------------
(* get_position                                                            *)

\* the answers the link gave to the position reads of axis ax
PositionAnswers(ax) == {hist[k].val : k \in {j \in Events("r") : hist[j].ax = ax}}

\* C29 as stated: get_position returns a list with a place for every
\* requested axis; every requested axis was read; an axis that got an absent
\* or non-positive answer has None at its place; and the cached position of
\* every requested axis is the value at its place.
C29_Claim ==
    Finished("get_position") =>
        /\ IsList(result) /\ Len(result.l) = Len(CallAxes)
        /\ \A i \in 1..Len(CallAxes) :
              /\ PositionAnswers(CallAxes[i]) # {}
              /\ (\E a \in PositionAnswers(CallAxes[i]) : ~HomeChecked(a)) =>
                    result.l[i] = None
              /\ IndexOf(self.axes, CallAxes[i]) # 0 =>
                    self.current_position[IndexOf(self.axes, CallAxes[i])] = result.l[i]

\* the query of the whole stage read a position for axis 1, got no answer
\* to the second read of it and raised: axis 2 was not read
C29_Raised ==
    /\ Finished("get_position") /\ call.axes = Num(-1) /\ result = Exc
    /\ Len(hist) = 2 /\ Cmd(1, "r", 1) /\ Cmd(2, "r", 1)
    /\ HomeChecked(hist[1].val) /\ hist[2].val = None

---------------------------------------------------------------------------
(* the unit of the lengths home returns                                    *)

\* a blocking home of a stage that is not the otter stage returned a list
HomeList ==
    Finished("home") /\ self.extra = "" /\ call.block /\ IsList(result)

\* C31 as stated: the list a blocking home returns holds, for every homed
\* axis, the length the axis reported in steps divided by steps_per_mm: the
\* number at place i, taken as millimetres, is the reported length in mm.
C31_Claim ==
    HomeList =>
        /\ AllReported(WaitAxes) /\ Len(result.l) = Len(WaitAxes)
        /\ \A i \in 1..Len(WaitAxes) :
              Mm(result.l[i], self.steps_per_mm) = to_mm(ReportedLengths(WaitAxes)[i])

\* the blocking home of the whole stage returned the lengths as the axes
\* reported them, in steps: 7500 and 6000 at 10 steps per mm
C31_Steps ==
    /\ HomeList /\ call.axis = -1 /\ AllReported(WaitAxes)
    /\ result = List(ReportedLengths(WaitAxes))
    /\ result.l = <<UserLengths[1].v * self.steps_per_mm,
                    UserLengths[2].v * self.steps_per_mm>>

---------------------------------------------------------------------------
(* goto for an axis the stage does not have                                *)

\* the call names an axis that is not among the discovered ones
InvalidAxisNamed == \E i \in 1..Len(CallAxes) : IndexOf(self.axes, CallAxes[i]) = 0

\* C32 as stated: a goto that names an axis the stage does not have returns
\* -3 and sends no move command.
C32_Claim ==
    (Finished("goto") /\ InvalidAxisNamed) => (result = Num(-3) /\ NoMoveSent)

\* the goto of axes 3 and 1 read a length for axis 3 and raised: the length
\* read is the only command of the call
C32_Raised ==
    /\ Finished("goto") /\ call.axes = List(<<3, 1>>) /\ result = Exc
    /\ Len(hist) = 1 /\ Cmd(1, "l", 3) /\ LengthKnown(hist[1].val)

---------------------------------------------------------------------------
(* the code -9                                                             *)

\* a call of a public operation on the connected driver is over
PublicCallOver ==
    /\ Idle /\ result # None
    /\ call.op \in {"check_lengths", "home", "jog", "wait_for_home_or_jog",
                    "goto", "move", "estop"}

\* C33 as stated: no public operation returns -9.
C33_Claim == PublicCallOver => result # Num(-9)

\* estop of no axis at all sent nothing and returned -9
C33_Estop_Empty ==
    /\ Finished("estop") /\ call.axes = List(<<>>) /\ self.n_axes > 0
    /\ Events("b") = {} /\ result = Num(-9)

---------------------------------------------------------------------------
(* deadlines                                                               *)

\* the running or finished call is a blocking one
BlockingCall ==
    \/ call.op = "wait_for_home_or_jog"
    \/ call.op \in {"home", "jog", "goto", "move"} /\ call.block

\* the call got as far as its polling loop: the wait is for axes of the
\* stage, the home or jog command was acknowledged, the moves were sent
ReachedPolling ==
    \/ call.op = "wait_for_home_or_jog"
         /\ (call.axis = -1 \/ IndexOf(self.axes, call.axis) # 0)
    \/ call.op \in {"home", "jog"} /\ hist # <<>> /\ hist[1].e = "cmd"
         /\ hist[1].name \in {"h", "j"} /\ hist[1].val = Str(0)
    \/ call.op \in {"goto", "move"} /\ Events("g") # {}

\* the call is over and the clock had reached its deadline
DeadlinePassed ==
    /\ Idle /\ result # None /\ BlockingCall /\ ReachedPolling
    /\ now >= call.timeout

\* C34: every blocking call that has begun is over at some later time,
\* whatever the link answers to the polls, and a call that ended with the
\* clock at or past its deadline returned -1.
C34_Theorem ==
    /\ (~Idle /\ BlockingCall) ~> Idle
    /\ [](DeadlinePassed => result = Num(-1))

\* the goto of the whole stage saw axis 1 stop off its target and ran out of
\* time while axis 2 was moving: it returned -1
C34_Witness ==
    /\ Finished("goto") /\ call.block /\ call.timeout = MaxTimeout
    /\ Len(CallAxes) = 2 /\ ObservedStalled(1) /\ ~ObservedStopped(2)
    /\ now = call.timeout /\ result = Num(-1)

---------------------------------------------------------------------------
(* the move commands of a goto                                             *)

\* the goto is over, it paired every target with an axis of the stage, the
\* first commands of the call read a positive length for every axis in turn
\* and no target is out of bounds
EveryAxisValidates ==
    /\ Finished("goto") /\ StageAxes
    /\ Len(CallAxes) > 0 /\ Len(CallPos) = Len(CallAxes)
    /\ Len(hist) >= Len(CallAxes)
    /\ \A i \in 1..Len(CallAxes) :
          /\ Cmd(i, "l", CallAxes[i]) /\ LengthKnown(hist[i].val)
          /\ ~OutOfBounds(i)

EveryMoveAcknowledged == \A k \in Events("g") : hist[k].val = Str(0)

\* C35: a goto in which every axis validates and every move command is
\* acknowledged sends one move command per axis, right after the length
\* reads and in the order of the axes argument, each with the target of its
\* axis in steps, and sends no home, jog or stop command.
C35_Theorem ==
    (EveryAxisValidates /\ EveryMoveAcknowledged) =>
        LET n == Len(CallAxes)
        IN  /\ Events("g") = (n + 1)..(2 * n)
            /\ \A i \in 1..n :
                  Cmd(n + i, "g", CallAxes[i]) /\ hist[n + i].arg = StepTarget(i)
            /\ Events("h") = {} /\ Events("j") = {} /\ Events("b") = {}

\* a goto of the whole stage to two different targets sent g for axis 1 with
\* the first and g for axis 2 with the second
C35_Witness ==
    /\ EveryAxisValidates /\ EveryMoveAcknowledged
    /\ Len(CallAxes) = 2 /\ StepTarget(1) # StepTarget(2)
    /\ Cmd(3, "g", 1) /\ hist[3].arg = StepTarget(1)
    /\ Cmd(4, "g", 2) /\ hist[4].arg = StepTarget(2)

---------------------------------------------------------------------------
(* the command server's single worker                                      *)

\* the worker processes that have been started and have not ended
AliveWorkers == {p \in 1..Len(sess.workers) : sess.workers[p] # "dead"}

\* a message of an action request, or of stop, was handled in this step
ActionMessage ==
    now' = now + 1 /\ call'.op = "on_message" /\ sess'.action \in ActionRequests
StopMessage ==
    now' = now + 1 /\ call'.op = "on_message" /\ sess'.action = "stop"

---------------------------------------------------------------------------
(* what composite homing returns                                           *)

\* composite homing is over
CompositeHomingOver ==
    Finished("home") /\ self.extra = "otter" /\ call.axis = -1 /\ call.block

\* the home command of axis ax was sent and acknowledged, and the home it
\* belongs to returned a list: its wait completed
HomedAxis(ax) ==
    /\ \E k \in Events("h") : hist[k].ax = ax /\ hist[k].val = Str(0)
    /\ \E k \in 1..Len(hist) : StepRet(k, "home", ax) /\ IsList(hist[k].val)

\* C37 as stated: composite homing returns a list only when both axes were
\* homed in the call, and a negative error code in every other run.
C37_Claim ==
    CompositeHomingOver =>
        IF HomedAxis(1) /\ HomedAxis(2)
        THEN IsList(result)
        ELSE IsNum(result) /\ result.v < 0

\* composite homing returned the list its first step, the jog of axis 2,
\* handed back, without sending a home command
C37_Jog_List ==
    /\ CompositeHomingOver /\ IsList(result) /\ Len(result.l) = 1
    /\ Events("h") = {}
    /\ \E k \in 1..Len(hist) : StepRet(k, "jog", 2) /\ hist[k].val = result

---------------------------------------------------------------------------
(* the homed flag after a composite homing that failed                     *)

\* C38 as stated: when composite homing has returned an error code, homed is
\* not True.
C38_Claim ==
    (CompositeHomingOver /\ IsNum(result) /\ result.v < 0) => self.homed # "True"

\* composite homing found axis 1 out of tolerance after homing it and
\* returned -5; homed is True, as the connect before had left it
C38_Still_Homed ==
    /\ CompositeHomingOver /\ result = Num(-5) /\ self.homed = "True"
    /\ \E k \in 1..Len(hist) : StepRet(k, "check_lengths", 1) /\ hist[k].val = Num(-1)
    /\ \A k \in 1..Len(hist) : hist[k].e # "homed"

---------------------------------------------------------------------------
(* the cached positions after a goto                                       *)

\* the places, in the list of cached positions, of the axes the running
\* goto targets
TargetedPlaces ==
    {IndexOf(self.axes, stack[1].axes[i]) : i \in 1..Len(stack[1].axes)}

\* C39 as stated, for the blocking gotos that return 0, in which every
\* targeted axis was read at its target: the cached position of every
\* targeted axis, at the place of that axis in the stage, is its target; and
\* no step of a goto changes the cached position of an axis it does not
\* target.
C39_Claim ==
    /\ []((Finished("goto") /\ call.block /\ StageAxes /\ result = Num(0)) =>
            \A i \in 1..Len(CallAxes) :
               self.current_position[IndexOf(self.axes, CallAxes[i])] =
                   Num(to_mm(StepTarget(i))))
    /\ [][(stack # <<>> /\ stack[1].fn = "goto") =>
            \A p \in 1..Len(self.current_position) :
               p \notin TargetedPlaces =>
                  self'.current_position[p] = self.current_position[p]]_vars

\* the blocking goto of axis 2 alone returned 0 and the position it read is
\* cached at the place of axis 1; axis 2 has no cached position
C39_Wrong_Place ==
    /\ Finished("goto") /\ call.block /\ call.axes = Num(2) /\ result = Num(0)
    /\ self.current_position[1] = Num(to_mm(StepTarget(1)))
    /\ self.current_position[2] = None

---------------------------------------------------------------------------
(* the stop commands of estop and what estop leaves alone                  *)

\* the estop call names every axis of the stage
AllAxesRequested ==
    /\ Len(CallAxes) = self.n_axes
    /\ {CallAxes[i] : i \in 1..Len(CallAxes)} = {self.axes[i] : i \in 1..self.n_axes}

\* C40: an estop that names every axis of the stage sends the one stop
\* command of the whole stage; any other estop sends one stop command per
\* listed axis, in turn, whatever the answers to the earlier ones; and no
\* step of an estop changes homed, a cached position or a measured length.
C40_Theorem ==
    /\ [](Finished("estop") =>
            IF AllAxesRequested
            THEN Events("b") = {1} /\ Cmd(1, "b", -1)
            ELSE /\ Events("b") = 1..Len(CallAxes)
                 /\ \A i \in 1..Len(CallAxes) : Cmd(i, "b", CallAxes[i]))
    /\ [][(stack # <<>> /\ stack[1].fn = "estop") =>
            /\ self'.homed = self.homed
            /\ self'.current_position = self.current_position
            /\ self'.measured_lengths = self.measured_lengths]_vars

\* the stop of axis 2 was rejected and axis 3 was sent its stop all the same
C40_Witness ==
    /\ Finished("estop") /\ call.axes = List(<<2, 3>>)
    /\ Cmd(1, "b", 2) /\ hist[1].val # Str(0)
    /\ Cmd(2, "b", 3) /\ result = Num(-2)
====
